---- MODULE Spec2Model ----
(***************************************************************************)
(* A model of devbox's environment composition and shell provisioning      *)
(* engine: the package-intent state machine (Add / Remove / Ensure), the   *)
(* `devbox shell` command with its inception guard, and the layered        *)
(* environment composition of computeNixEnv.                               *)
(*                                                                         *)
(* Strings whose inner structure the code inspects (environment entries    *)
(* "K=V", PATH lists) are sequences of tokens; package identifiers, error  *)
(* names and trace events are atomic strings.                              *)
(***************************************************************************)
EXTENDS Integers, Sequences, FiniteSets, TLC

VARIABLES
    cfg,        \* d.cfg.RawPackages: the in-memory package intent
    disk,       \* the "packages" list stored in devbox.json
    last,       \* the last call on the Devbox value: inputs, pre-state, result
    shell,      \* the last `devbox shell` request: inputs and result
    comp,       \* the last computeNixEnv call: inputs and result
    files,      \* the entries of the scripts directory .devbox/gen/scripts
    mat,        \* the last runs of writeScriptsToFiles: inputs and results
    rc,         \* the last rendering of shellrc.tmpl: its data and its text
    conc,       \* invocations in progress on one project, each with its own
                \* Devbox value, and the calls made so far
    run         \* the last one-shot execution on the scripts directory: its
                \* command, the directory it found, its error

vars == <<cfg, disk, last, shell, comp, files, mat, rc, conc, run>>

----------------------------------------------------------------------------
(* Bounds of the model *)

\* longest argument list given to Add / Remove
MaxArgs == 2

\* most external steps that fail in one call
MaxFail == 2

\* most entries, over all four layers together, in one composition
MaxEntries == 3

\* most tokens a WriteString has written when it fails (the room left on
\* the file system)
MaxFree == 1

----------------------------------------------------------------------------
(* Sequence helpers *)

Range(s) == { s[i] : i \in DOMAIN s }

\* slices.Contains
Contains(s, x) == \E i \in DOMAIN s : s[i] = x

NoDup(s) == \A i, j \in DOMAIN s : i # j => s[i] # s[j]

RECURSIVE Filter(_, _)
\* the elements of s that are in set keep, in s's order
Filter(s, keep) ==
    IF s = <<>> THEN <<>>
    ELSE (IF Head(s) \in keep THEN <<Head(s)>> ELSE <<>>) \o Filter(Tail(s), keep)

SeqsUpTo(S, n) == UNION { [1..k -> S] : k \in 0..n }

----------------------------------------------------------------------------
(* Package identifiers and the external resolver *)

PkgIds == {"x", "y", "z"}

\* the identifiers the resolver knows; "z" can be declared in a devbox.json
\* (written by hand, or dropped from nixpkgs since) but cannot be added
KnownPkgs == {"x", "y"}

\* nix.PkgExists(commit, pkg)
PkgExists(pkg) == pkg \in KnownPkgs

\* every duplicate-free intent over PkgIds
Intents == { s \in SeqsUpTo(PkgIds, Cardinality(PkgIds)) : NoDup(s) }

----------------------------------------------------------------------------
(* The call state threaded through one handler: the Devbox value's intent, *)
(* the config file, the error being returned ("" is nil), and the trace of *)
(* the steps performed so far, each with its argument and whether it       *)
(* succeeded.                                                              *)

NoErr == ""

Call(c, d) == [cfg |-> c, disk |-> d, err |-> NoErr, trace |-> <<>>]

Event(ev, arg, ok) == [ev |-> ev, arg |-> arg, ok |-> ok]

Did(s, ev, arg) == [s EXCEPT !.trace = Append(@, Event(ev, arg, TRUE))]

Failed(s, ev, arg, e) ==
    [s EXCEPT !.trace = Append(@, Event(ev, arg, FALSE)), !.err = e]

\* the names of the steps of a trace, in order
Steps(trace) == [i \in DOMAIN trace |-> trace[i].ev]

\* position of the first occurrence of step ev in the trace, 0 if none
FirstAt(trace, ev) ==
    IF \E i \in DOMAIN trace : trace[i].ev = ev
    THEN CHOOSE i \in DOMAIN trace :
            /\ trace[i].ev = ev
            /\ \A j \in 1..(i - 1) : trace[j].ev # ev
    ELSE 0

\* a devbox.json that a write abandoned part-way has left: its text is cut
\* short and does not parse
TornFile == <<"{">>

\* what a failing write can leave besides the file as it was: a torn file,
\* or the new contents (the error came after the last byte).  The outcome is
\* an input of the call, carried with its failing steps.
WriteLeaves == {"torn write", "completed write"}

\* cuecfg.WriteFile(path, value) on the file `persisted`: the file after the
\* call.  A write that returns no error has replaced the contents; one that
\* returns an error leaves the old contents, a torn file or the new
\* contents, as `fails` says.
cuecfgWriteFile(persisted, value, failed, fails) ==
    IF ~failed THEN value
    ELSE IF "torn write" \in fails THEN TornFile
    ELSE IF "completed write" \in fails THEN value
    ELSE persisted

\* saveCfg: cuecfg.WriteFile(cfgPath, d.cfg), its error returned as it is.
\* `site` names the call site, so that the first persist and the rollback
\* persist can fail independently.
saveCfg(s, site, fails) ==
    LET file == cuecfgWriteFile(s.disk, s.cfg, site \in fails, fails) IN
    IF site \in fails
    THEN [Failed(s, site, s.cfg, "saveCfg") EXCEPT !.disk = file]
    ELSE [Did(s, site, s.cfg) EXCEPT !.disk = file]

\* the profile step: addPackagesToProfile under the Flakes feature flag,
\* installNixProfile otherwise
ProfileStep(fl) == IF fl THEN "addPackagesToProfile" ELSE "installNixProfile"

ProfileErr(fl) == IF fl THEN "addPackagesToProfile" ELSE "apply Nix derivation"

\* the progress line ensurePackagesAreInstalled writes before the profile step
SyncMessage(s, mode, fl) ==
    IF mode = "ensure"
    THEN Did(s, "print", <<"Ensuring packages are installed.">>)
    ELSE IF fl THEN s
    ELSE IF mode = "uninstall"
    THEN Did(s, "print", <<"Uninstalling nix packages.">>)
    ELSE Did(s, "print", <<"Installing nix packages.">>)

\* a sync that, in ensure mode, writes the in-memory intent back to
\* devbox.json once the manifest files are regenerated
ensureSavingCfg(s, mode, fl, fails) ==
    IF "generateShellFiles" \in fails
    THEN Failed(s, "generateShellFiles", <<>>, "generateShellFiles")
    ELSE
    LET s0 == Did(s, "generateShellFiles", <<>>)
        s1 == SyncMessage(IF mode = "ensure" THEN [s0 EXCEPT !.disk = s0.cfg] ELSE s0,
                          mode, fl)
    IN
    IF "profile" \in fails
    THEN Failed(s1, ProfileStep(fl), <<>>, ProfileErr(fl))
    ELSE
    LET s2 == Did(s1, ProfileStep(fl), <<>>) IN
    IF "RemoveInvalidSymlinks" \in fails
    THEN Failed(s2, "RemoveInvalidSymlinks", <<>>, "RemoveInvalidSymlinks")
    ELSE Did(s2, "RemoveInvalidSymlinks", <<>>)

\* a sync that prunes the symlinks before it runs the package manager
ensurePruningFirst(s, mode, fl, fails) ==
    IF "generateShellFiles" \in fails
    THEN Failed(s, "generateShellFiles", <<>>, "generateShellFiles")
    ELSE
    LET s1 == SyncMessage(Did(s, "generateShellFiles", <<>>), mode, fl) IN
    IF "RemoveInvalidSymlinks" \in fails
    THEN Failed(s1, "RemoveInvalidSymlinks", <<>>, "RemoveInvalidSymlinks")
    ELSE
    LET s2 == Did(s1, "RemoveInvalidSymlinks", <<>>) IN
    IF "profile" \in fails
    THEN Failed(s2, ProfileStep(fl), <<>>, ProfileErr(fl))
    ELSE Did(s2, ProfileStep(fl), <<>>)

\* ensurePackagesAreInstalled(mode): regenerate the manifest files, run the
\* package manager on the profile, prune the plugins' dangling symlinks.
ensurePackagesAreInstalled(s, mode, fl, fails) ==
    IF "generateShellFiles" \in fails
    THEN Failed(s, "generateShellFiles", <<>>, "generateShellFiles")
    ELSE
    LET s1 == SyncMessage(Did(s, "generateShellFiles", <<>>), mode, fl) IN
    IF "profile" \in fails
    THEN Failed(s1, ProfileStep(fl), <<>>, ProfileErr(fl))
    ELSE
    LET s2 == Did(s1, ProfileStep(fl), <<>>) IN
    IF "RemoveInvalidSymlinks" \in fails
    THEN Failed(s2, "RemoveInvalidSymlinks", <<>>, "RemoveInvalidSymlinks")
    ELSE Did(s2, "RemoveInvalidSymlinks", <<>>)

\* printPackageUpdateMessage: fails only through plugin.PrintEnvUpdateMessage
printPackageUpdateMessage(s, mode, pkgs, fails) ==
    IF "printPackageUpdateMessage" \in fails /\ pkgs # <<>>
    THEN Failed(s, "printPackageUpdateMessage", pkgs, "PrintEnvUpdateMessage")
    ELSE Did(s, "printPackageUpdateMessage", pkgs)

----------------------------------------------------------------------------
(* Add *)

\* an append loop that tests membership in the list as it was on entry
AppendNewAgainstOriginal(list, pkgs) ==
    list \o Filter(pkgs, Range(pkgs) \ Range(list))

RECURSIVE AppendNew(_, _)
\* the loop of Add: append each identifier that is not yet in the list
AppendNew(list, pkgs) ==
    IF pkgs = <<>> THEN list
    ELSE AppendNew(IF Contains(list, Head(pkgs)) THEN list
                   ELSE Append(list, Head(pkgs)),
                   Tail(pkgs))

\* a validation that looks up the first identifier only
ValidateFirstOnly(s, pkgs) ==
    IF pkgs = <<>> THEN s
    ELSE IF ~PkgExists(Head(pkgs))
    THEN Failed(s, "PkgExists", <<Head(pkgs)>>, "ErrPackageNotFound")
    ELSE Did(s, "PkgExists", <<Head(pkgs)>>)

RECURSIVE Validate(_, _)
\* the first loop of Add: look every identifier up, stop at the first unknown
Validate(s, pkgs) ==
    IF pkgs = <<>> THEN s
    ELSE IF ~PkgExists(Head(pkgs))
    THEN Failed(s, "PkgExists", <<Head(pkgs)>>, "ErrPackageNotFound")
    ELSE Validate(Did(s, "PkgExists", <<Head(pkgs)>>), Tail(pkgs))

RECURSIVE PrintReadmes(_, _, _)
\* plugin.PrintReadme for each added package, stopping at the first failure
PrintReadmes(s, pkgs, fails) ==
    IF pkgs = <<>> THEN s
    ELSE IF "PrintReadme" \in fails
    THEN Failed(s, "PrintReadme", <<Head(pkgs)>>, "PrintReadme")
    ELSE PrintReadmes(Did(s, "PrintReadme", <<Head(pkgs)>>), Tail(pkgs), fails)

\* an Add that reports a failed sync and keeps the new identifiers declared
AddWithoutRollback(s, pkgs, fl, fails) ==
    LET s0 == Validate(s, pkgs) IN
    IF s0.err # NoErr THEN s0
    ELSE
    LET s1 == saveCfg([s0 EXCEPT !.cfg = AppendNew(s0.cfg, pkgs)], "saveCfg", fails) IN
    IF s1.err # NoErr THEN s1
    ELSE
    LET s2 == ensurePackagesAreInstalled(s1, "install", fl, fails) IN
    IF s2.err # NoErr THEN s2
    ELSE
    LET s5 == PrintReadmes(s2, pkgs, fails) IN
    IF s5.err # NoErr THEN s5
    ELSE printPackageUpdateMessage(s5, "install", pkgs, fails)

\* an Add that reports the failure of its rollback persist
AddReportingRollbackFailure(s, pkgs, fl, fails) ==
    LET original == s.cfg
        s0 == Validate(s, pkgs)
    IN
    IF s0.err # NoErr THEN s0
    ELSE
    LET s1 == saveCfg([s0 EXCEPT !.cfg = AppendNew(s0.cfg, pkgs)], "saveCfg", fails) IN
    IF s1.err # NoErr THEN s1
    ELSE
    LET s2 == ensurePackagesAreInstalled(s1, "install", fl, fails) IN
    IF s2.err # NoErr
    THEN LET s3 == Did(s2, "print", <<"Packages were not added to devbox.json">>)
         IN  saveCfg([s3 EXCEPT !.cfg = original], "rollbackSaveCfg", fails)
    ELSE
    LET s5 == PrintReadmes(s2, pkgs, fails) IN
    IF s5.err # NoErr THEN s5
    ELSE printPackageUpdateMessage(s5, "install", pkgs, fails)

\* Devbox.Add
Add(s, pkgs, fl, fails) ==
    LET original == s.cfg
        s0 == Validate(s, pkgs)
    IN
    IF s0.err # NoErr THEN s0
    ELSE
    LET s1 == saveCfg([s0 EXCEPT !.cfg = AppendNew(s0.cfg, pkgs)], "saveCfg", fails) IN
    IF s1.err # NoErr THEN s1
    ELSE
    LET s2 == ensurePackagesAreInstalled(s1, "install", fl, fails) IN
    IF s2.err # NoErr
    THEN \* revert devbox.json; the rollback's own error is dropped
         LET s3 == Did(s2, "print", <<"Packages were not added to devbox.json">>)
             s4 == saveCfg([s3 EXCEPT !.cfg = original], "rollbackSaveCfg", fails)
         IN  [s4 EXCEPT !.err = s2.err]
    ELSE
    LET s5 == PrintReadmes(s2, pkgs, fails) IN
    IF s5.err # NoErr THEN s5
    ELSE printPackageUpdateMessage(s5, "install", pkgs, fails)

----------------------------------------------------------------------------
(* Remove *)

\* lo.Intersect(list1, list2): the elements of list2 that occur in list1
loIntersect(list1, list2) == Filter(list2, Range(list1))

\* lo.Difference(list1, list2): what is in list1 only, what is in list2 only
loDifference(list1, list2) ==
    [left  |-> Filter(list1, Range(list1) \ Range(list2)),
     right |-> Filter(list2, Range(list2) \ Range(list1))]

\* a Remove that, like Add, restores and persists the old intent when the
\* sync fails
RemoveRollingBack(s, pkgs, fl, fails) ==
    LET original == s.cfg
        uninstalledPackages == loIntersect(s.cfg, pkgs)
        diff == loDifference(s.cfg, pkgs)
        s0 == [s EXCEPT !.cfg = diff.left]
        s1 == IF Len(diff.right) > 0 THEN Did(s0, "warning", diff.right) ELSE s0
        s2 == saveCfg(s1, "saveCfg", fails)
    IN
    IF s2.err # NoErr THEN s2
    ELSE IF "plugin.Remove" \in fails
    THEN Failed(s2, "plugin.Remove", uninstalledPackages, "plugin.Remove")
    ELSE
    LET s3 == Did(s2, "plugin.Remove", uninstalledPackages) IN
    IF "removePackagesFromProfile" \in fails
    THEN Failed(s3, "removePackagesFromProfile", uninstalledPackages,
                "removePackagesFromProfile")
    ELSE
    LET s4 == ensurePackagesAreInstalled(
                  Did(s3, "removePackagesFromProfile", uninstalledPackages),
                  "uninstall", fl, fails)
    IN
    IF s4.err # NoErr
    THEN [saveCfg([s4 EXCEPT !.cfg = original], "rollbackSaveCfg", fails)
             EXCEPT !.err = s4.err]
    ELSE printPackageUpdateMessage(s4, "uninstall", uninstalledPackages, fails)

\* a Remove that hands every requested package to the uninstall steps
RemoveUninstallingRequested(s, pkgs, fl, fails) ==
    LET uninstalledPackages == pkgs
        diff == loDifference(s.cfg, pkgs)
        s0 == [s EXCEPT !.cfg = diff.left]
        s1 == IF Len(diff.right) > 0 THEN Did(s0, "warning", diff.right) ELSE s0
        s2 == saveCfg(s1, "saveCfg", fails)
    IN
    IF s2.err # NoErr THEN s2
    ELSE IF "plugin.Remove" \in fails
    THEN Failed(s2, "plugin.Remove", uninstalledPackages, "plugin.Remove")
    ELSE
    LET s3 == Did(s2, "plugin.Remove", uninstalledPackages) IN
    IF "removePackagesFromProfile" \in fails
    THEN Failed(s3, "removePackagesFromProfile", uninstalledPackages,
                "removePackagesFromProfile")
    ELSE
    LET s4 == ensurePackagesAreInstalled(
                  Did(s3, "removePackagesFromProfile", uninstalledPackages),
                  "uninstall", fl, fails)
    IN
    IF s4.err # NoErr THEN s4
    ELSE printPackageUpdateMessage(s4, "uninstall", uninstalledPackages, fails)

\* Devbox.Remove
Remove(s, pkgs, fl, fails) ==
    LET uninstalledPackages == loIntersect(s.cfg, pkgs)
        diff == loDifference(s.cfg, pkgs)
        s0 == [s EXCEPT !.cfg = diff.left]
        s1 == IF Len(diff.right) > 0 THEN Did(s0, "warning", diff.right) ELSE s0
        s2 == saveCfg(s1, "saveCfg", fails)
    IN
    IF s2.err # NoErr THEN s2
    ELSE IF "plugin.Remove" \in fails
    THEN Failed(s2, "plugin.Remove", uninstalledPackages, "plugin.Remove")
    ELSE
    LET s3 == Did(s2, "plugin.Remove", uninstalledPackages) IN
    IF "removePackagesFromProfile" \in fails
    THEN Failed(s3, "removePackagesFromProfile", uninstalledPackages,
                "removePackagesFromProfile")
    ELSE
    LET s4 == ensurePackagesAreInstalled(
                  Did(s3, "removePackagesFromProfile", uninstalledPackages),
                  "uninstall", fl, fails)
    IN
    IF s4.err # NoErr THEN s4
    ELSE printPackageUpdateMessage(s4, "uninstall", uninstalledPackages, fails)

----------------------------------------------------------------------------
(* Shell, RunScript, Exec, PrintEnv: the handlers that start with a sync   *)
(* in ensure mode.  ff is the feature-flag setting of the process:         *)
(* [Flakes, UnifiedEnv].                                                   *)

\* one external step of a handler: skipped once an error is being returned
Step(s, ev, arg, fails) ==
    IF s.err # NoErr THEN s
    ELSE IF ev \in fails THEN Failed(s, ev, arg, ev)
    ELSE Did(s, ev, arg)

\* d.cfg.Shell.Scripts: the names of the declared scripts
Scripts == {"build"}

\* scriptFilename
scriptFilename(scriptName) == <<scriptName, ".sh">>

\* hooksFilename and arbitraryCmdFilename
hooksFilename == ".hooks"

arbitraryCmdFilename == ".cmd"

\* scriptsDir
scriptsDir == ".devbox/gen/scripts"

\* d.projectDir
ProjectDir == <<"/proj">>

\* Devbox.scriptPath
scriptPath(projectDir, filename) == projectDir \o <<"/", scriptsDir, "/">> \o filename

\* Devbox.scriptBody
scriptBody(projectDir, body) ==
    <<". ">> \o scriptPath(projectDir, scriptFilename(hooksFilename))
            \o <<"\n\n">> \o body

RECURSIVE stringsJoin(_, _)
\* strings.Join(elems, sep), the elements being strings of tokens
stringsJoin(elems, sep) ==
    IF elems = <<>> THEN <<>>
    ELSE IF Len(elems) = 1 THEN elems[1]
    ELSE elems[1] \o <<sep>> \o stringsJoin(Tail(elems), sep)

\* the words of a command line as strings of one token each
Words(cmds) == [i \in DOMAIN cmds |-> <<cmds[i]>>]

\* Devbox.Shell
Shell(s, ff, fails) ==
    LET s1 == ensurePackagesAreInstalled(s, "ensure", ff.Flakes, fails)
        s2 == IF s1.err # NoErr THEN s1
              ELSE Did(s1, "print", <<"Starting a devbox shell...">>)
        s3 == Step(Step(s2, "profilePath", <<>>, fails),
                   "plugin.InitHooks", <<>>, fails)
        s4 == IF ff.UnifiedEnv
              THEN Step(s3, "computeNixEnv", <<>>, fails)
              ELSE Step(s3, "plugin.Env", <<>>, fails)
    IN  Step(Step(s4, "nix.NewDevboxShell", <<>>, fails), "shell.Run", <<>>, fails)

\* Devbox.RunScriptInNewNixShell
RunScriptInNewNixShell(s, scriptName, ff, fails) ==
    LET s1 == ensurePackagesAreInstalled(s, "ensure", ff.Flakes, fails)
        s2 == IF s1.err # NoErr THEN s1
              ELSE Did(s1, "print", <<"Starting a devbox shell...">>)
        s3 == Step(s2, "profilePath", <<>>, fails)
    IN
    IF s3.err # NoErr THEN s3
    ELSE IF scriptName \notin Scripts
    THEN [s3 EXCEPT !.err = "unable to find a script"]
    ELSE Step(Step(Step(Step(s3, "plugin.InitHooks", <<>>, fails),
                        "plugin.Env", <<>>, fails),
                   "nix.NewDevboxShell", <<scriptName>>, fails),
              "shell.Run", <<scriptName>>, fails)

\* a RunScript that writes the command line itself into the .cmd artifact
RunScriptBakingCommand(s, cmdName, cmdArgs, ff, fails) ==
    IF ~ff.UnifiedEnv THEN RunScriptInNewNixShell(s, cmdName, ff, fails)
    ELSE
    LET s1 == ensurePackagesAreInstalled(s, "ensure", ff.Flakes, fails)
        s2 == Step(Step(s1, "writeScriptsToFiles", <<>>, fails),
                   "computeNixEnv", <<>>, fails)
    IN
    IF s2.err # NoErr THEN s2
    ELSE IF cmdName \in Scripts
    THEN Step(s2, "nix.RunScript",
              stringsJoin(<<scriptPath(ProjectDir, scriptFilename(cmdName))>>
                              \o Words(cmdArgs), " "),
              fails)
    ELSE Step(Step(s2, "writeScriptFile",
                   scriptFilename(arbitraryCmdFilename)
                       \o scriptBody(ProjectDir,
                              stringsJoin(Words(<<cmdName>> \o cmdArgs), " ")),
                   fails),
              "nix.RunScript",
              scriptPath(ProjectDir, scriptFilename(arbitraryCmdFilename)), fails)

\* a RunScript that composes the environment before it writes the scripts
RunScriptComposingFirst(s, cmdName, cmdArgs, ff, fails) ==
    IF ~ff.UnifiedEnv THEN RunScriptInNewNixShell(s, cmdName, ff, fails)
    ELSE
    LET s1 == ensurePackagesAreInstalled(s, "ensure", ff.Flakes, fails)
        s2 == Step(Step(s1, "computeNixEnv", <<>>, fails),
                   "writeScriptsToFiles", <<>>, fails)
    IN
    IF s2.err # NoErr THEN s2
    ELSE IF cmdName \in Scripts
    THEN Step(s2, "nix.RunScript",
              stringsJoin(<<scriptPath(ProjectDir, scriptFilename(cmdName))>>
                              \o Words(cmdArgs), " "),
              fails)
    ELSE
    LET s3 == Step(s2, "writeScriptFile",
                   scriptFilename(arbitraryCmdFilename)
                       \o scriptBody(ProjectDir, <<"eval $DEVBOX_RUN_CMD\n">>),
                   fails)
        s4 == IF s3.err # NoErr THEN s3
              ELSE Did(s3, "env DEVBOX_RUN_CMD",
                       stringsJoin(Words(<<cmdName>> \o cmdArgs), " "))
    IN  Step(s4, "nix.RunScript",
             scriptPath(ProjectDir, scriptFilename(arbitraryCmdFilename)), fails)

\* Devbox.RunScript
RunScript(s, cmdName, cmdArgs, ff, fails) ==
    IF ~ff.UnifiedEnv THEN RunScriptInNewNixShell(s, cmdName, ff, fails)
    ELSE
    LET s1 == ensurePackagesAreInstalled(s, "ensure", ff.Flakes, fails)
        s2 == Step(Step(s1, "writeScriptsToFiles", <<>>, fails),
                   "computeNixEnv", <<>>, fails)
    IN
    IF s2.err # NoErr THEN s2
    ELSE IF cmdName \in Scripts
    THEN LET cmdWithArgs == <<scriptPath(ProjectDir, scriptFilename(cmdName))>>
                                \o Words(cmdArgs)
         IN  Step(s2, "nix.RunScript", stringsJoin(cmdWithArgs, " "), fails)
    ELSE
    LET s3 == Step(s2, "writeScriptFile",
                   scriptFilename(arbitraryCmdFilename)
                       \o scriptBody(ProjectDir, <<"eval $DEVBOX_RUN_CMD\n">>),
                   fails)
        cmdWithArgs == <<scriptPath(ProjectDir, scriptFilename(arbitraryCmdFilename))>>
        s4 == IF s3.err # NoErr THEN s3
              ELSE Did(s3, "env DEVBOX_RUN_CMD",
                       stringsJoin(Words(<<cmdName>> \o cmdArgs), " "))
    IN  Step(s4, "nix.RunScript", stringsJoin(cmdWithArgs, " "), fails)

\* Devbox.ExecWithShell
ExecWithShell(s, cmds, ff, fails) ==
    LET s1 == ensurePackagesAreInstalled(s, "ensure", ff.Flakes, fails)
    IN  Step(Step(Step(s1, "profileBinPath", <<>>, fails),
                  "plugin.Env", <<>>, fails),
             "nix.Exec", <<"PATH=">> \o cmds, fails)

\* Devbox.Exec
Exec(s, cmds, ff, fails) ==
    IF ~ff.UnifiedEnv THEN ExecWithShell(s, cmds, ff, fails)
    ELSE IF Len(cmds) > 0 THEN RunScript(s, Head(cmds), Tail(cmds), ff, fails)
    ELSE [s EXCEPT !.err = "cannot execute empty command"]

\* Devbox.PrintEnv
PrintEnv(s, ff, fails) ==
    IF ~ff.UnifiedEnv THEN Step(s, "plugin.Env", <<>>, fails)
    ELSE Step(s, "computeNixEnv", <<>>, fails)

----------------------------------------------------------------------------
(* The `devbox shell` command (internal/boxcli/shell.go)                   *)

\* strconv.ParseBool: the strings it reads as true, the strings it reads as
\* false; every other string is an error
ParseBoolTrue == {"1", "t", "T", "TRUE", "true", "True"}

ParseBoolFalse == {"0", "f", "F", "FALSE", "false", "False"}

ParseBool(str) ==
    IF str \in ParseBoolTrue THEN [val |-> TRUE, err |-> FALSE]
    ELSE IF str \in ParseBoolFalse THEN [val |-> FALSE, err |-> FALSE]
    ELSE [val |-> FALSE, err |-> TRUE]

\* os.Getenv of a variable that is [set, value] in the environment
Getenv(v) == IF v.set THEN v.value ELSE ""

\* a guard that knows only the value the composition writes
IsDevboxShellEnabledOnlyOne(marker) == Getenv(marker) = "1"

\* IsDevboxShellEnabled, with marker the DEVBOX_SHELL_ENABLED variable
IsDevboxShellEnabled(marker) ==
    LET inDevboxShell == ParseBool(Getenv(marker)) IN
    IF inDevboxShell.err THEN FALSE ELSE inDevboxShell.val

\* shellInceptionErrorMsg
AlreadyInSession == "You are already in an active devbox shell."

\* a runShellCmd that runs the trailing command without a warning
runShellCmdSilent(s, marker, printEnv, cmds, ff, fails) ==
    LET s1 == Step(Step(s, "parseShellArgs", cmds, fails),
                   "devbox.Open", <<>>, fails)
    IN
    IF s1.err # NoErr THEN s1
    ELSE
    LET box == [s1 EXCEPT !.cfg = s1.disk] IN
    IF printEnv
    THEN LET s2 == PrintEnv(box, ff, fails) IN
         IF s2.err # NoErr THEN s2 ELSE Did(s2, "print", <<"script">>)
    ELSE IF IsDevboxShellEnabled(marker)
    THEN [box EXCEPT !.err = AlreadyInSession]
    ELSE IF Len(cmds) > 0 THEN Exec(box, cmds, ff, fails)
    ELSE Shell(box, ff, fails)

\* runShellCmd: the request's trailing command cmds, its --print-env flag,
\* and the marker in its ambient environment
runShellCmd(s, marker, printEnv, cmds, ff, fails) ==
    LET s1 == Step(Step(s, "parseShellArgs", cmds, fails),
                   "devbox.Open", <<>>, fails)
    IN
    IF s1.err # NoErr THEN s1
    ELSE
    LET box == [s1 EXCEPT !.cfg = s1.disk] IN
    IF printEnv
    THEN LET s2 == PrintEnv(box, ff, fails) IN
         IF s2.err # NoErr THEN s2 ELSE Did(s2, "print", <<"script">>)
    ELSE IF IsDevboxShellEnabled(marker)
    THEN [box EXCEPT !.err = AlreadyInSession]
    ELSE IF Len(cmds) > 0
    THEN Exec(IF ff.UnifiedEnv
              THEN Did(box, "warning",
                       <<"\"devbox shell -- <cmd>\" is deprecated">>)
              ELSE box,
              cmds, ff, fails)
    ELSE Shell(box, ff, fails)

----------------------------------------------------------------------------
(* computeNixEnv: the layered composition of the environment.              *)
(*                                                                         *)
(* A string is a sequence of tokens: "PATH=/b:/c" is                       *)
(* <<"PATH", "=", "/b", ":", "/c">>.  A map[string]string is a function    *)
(* from keys to values, both token sequences.                              *)

EmptyMap == [k \in {} |-> <<>>]

\* m[k] of a Go map: the empty string for a missing key
Get(m, k) == IF k \in DOMAIN m THEN m[k] ELSE <<>>

\* m[k] = v
Put(m, k, v) == [x \in DOMAIN m \cup {k} |-> IF x = k THEN v ELSE m[x]]

\* for k, v := range src { m[k] = v }
Merge(m, src) ==
    [x \in DOMAIN m \cup DOMAIN src |-> IF x \in DOMAIN src THEN src[x] ELSE m[x]]

\* strings.Cut(s, sep)
stringsCut(s, sep) ==
    IF \E i \in DOMAIN s : s[i] = sep
    THEN LET i == CHOOSE i \in DOMAIN s :
                     s[i] = sep /\ \A j \in 1..(i - 1) : s[j] # sep
         IN  [before |-> SubSeq(s, 1, i - 1),
              after  |-> SubSeq(s, i + 1, Len(s)),
              found  |-> TRUE]
    ELSE [before |-> s, after |-> <<>>, found |-> FALSE]

\* an ambient ignore set that lets the working directory through
ignoreCurrentEnvVarWithoutPWD == {<<"OLDPWD">>, <<"SHLVL">>, <<"SHELL">>}

\* ignoreCurrentEnvVar
ignoreCurrentEnvVar == {<<"PWD">>, <<"OLDPWD">>, <<"SHLVL">>, <<"SHELL">>}

\* a build ignore set without the home directory
ignoreDevEnvVarWithoutHOME ==
    {<<"BASHOPTS">>, <<"NIX_BUILD_TOP">>, <<"NIX_ENFORCE_PURITY">>,
     <<"NIX_LOG_FD">>, <<"NIX_REMOTE">>, <<"PPID">>, <<"SHELL">>, <<"SHELLOPTS">>,
     <<"TEMP">>, <<"TEMPDIR">>, <<"TERM">>, <<"TMP">>, <<"TMPDIR">>, <<"TZ">>,
     <<"UID">>}

\* a build ignore set that also holds the working directory
ignoreDevEnvVarWithPWD ==
    {<<"BASHOPTS">>, <<"HOME">>, <<"NIX_BUILD_TOP">>, <<"NIX_ENFORCE_PURITY">>,
     <<"NIX_LOG_FD">>, <<"NIX_REMOTE">>, <<"PPID">>, <<"PWD">>, <<"SHELL">>,
     <<"SHELLOPTS">>, <<"TEMP">>, <<"TEMPDIR">>, <<"TERM">>, <<"TMP">>,
     <<"TMPDIR">>, <<"TZ">>, <<"UID">>}

\* ignoreDevEnvVar
ignoreDevEnvVar ==
    {<<"BASHOPTS">>, <<"HOME">>, <<"NIX_BUILD_TOP">>, <<"NIX_ENFORCE_PURITY">>,
     <<"NIX_LOG_FD">>, <<"NIX_REMOTE">>, <<"PPID">>, <<"SHELL">>, <<"SHELLOPTS">>,
     <<"TEMP">>, <<"TEMPDIR">>, <<"TERM">>, <<"TMP">>, <<"TMPDIR">>, <<"TZ">>,
     <<"UID">>}

NoCertFile == <<"/no-cert-file.crt">>

RECURSIVE CopyCurrentEnv(_, _)
\* the loop over os.Environ(): [env, err]
CopyCurrentEnv(currentEnv, env) ==
    IF currentEnv = <<>> THEN [env |-> env, err |-> NoErr]
    ELSE LET kv == stringsCut(Head(currentEnv), "=") IN
         IF ~kv.found
         THEN [env |-> EmptyMap, err |-> "expected \"=\" in keyval"]
         ELSE IF kv.before \in ignoreCurrentEnvVar
         THEN CopyCurrentEnv(Tail(currentEnv), env)
         ELSE CopyCurrentEnv(Tail(currentEnv), Put(env, kv.before, kv.after))

\* a filter of the build layer that keeps every certificate path
DevEnvVarKeptAnyCert(key, val) ==
    val.Type = "exported" /\ key \notin ignoreDevEnvVar

\* the body of the loop over vaf.Variables: is the entry copied?
DevEnvVarKept(key, val) ==
    /\ val.Type = "exported"
    /\ ~(key = <<"SSL_CERT_FILE">> /\ val.Value = NoCertFile)
    /\ key \notin ignoreDevEnvVar

\* the loop over vaf.Variables
CopyDevEnv(variables, env) ==
    LET kept == { k \in DOMAIN variables : DevEnvVarKept(k, variables[k]) } IN
    [x \in DOMAIN env \cup kept |->
        IF x \in kept THEN variables[x].Value ELSE env[x]]

\* plugin.VirtenvBinPath
VirtenvBinPath == ".devbox/virtenv/bin"

\* Devbox.pluginVirtenvPath: filepath.Join(d.projectDir, plugin.VirtenvBinPath)
pluginVirtenvPath(projectDir) == projectDir \o <<"/", VirtenvBinPath>>

\* nix.JoinPathLists: the lists joined with the list separator
JoinPathLists(a, b, c) == a \o <<":">> \o b \o <<":">> \o c

\* the tokens that are runs of letters, digits and underscores
AlphaNum == {"PATH", "PWD", "HOME", "FOO", "BAR", "DIR", "baz", "plug", "built",
             "SSL_CERT_FILE", "DEVBOX_SHELL_ENABLED", "JUNK", "a", "b", "v"}

Digits == {"0", "1", "2", "3", "4", "5", "6", "7", "8", "9"}

\* isShellSpecialVar
isShellSpecialVar(c) ==
    c \in {"*", "#", "$", "@", "!", "?", "-"} \cup Digits

\* isAlphaNum
isAlphaNum(c) == c \in AlphaNum \cup Digits

\* getShellName(s), s not empty: the name that starts s and how many tokens
\* it takes
getShellName(s) ==
    IF s[1] = "{"
    THEN IF Len(s) > 2 /\ isShellSpecialVar(s[2]) /\ s[3] = "}"
         THEN [name |-> <<s[2]>>, w |-> 3]
         ELSE IF \E i \in 2..Len(s) : s[i] = "}"
         THEN LET i == CHOOSE i \in 2..Len(s) :
                          s[i] = "}" /\ \A j \in 2..(i - 1) : s[j] # "}"
              IN  IF i = 2 THEN [name |-> <<>>, w |-> 2]
                  ELSE [name |-> SubSeq(s, 2, i - 1), w |-> i]
         ELSE [name |-> <<>>, w |-> 1]
    ELSE IF isShellSpecialVar(s[1]) THEN [name |-> <<s[1]>>, w |-> 1]
    ELSE LET n == CHOOSE n \in 0..Len(s) :
                     /\ \A j \in 1..n : isAlphaNum(s[j])
                     /\ n < Len(s) => ~isAlphaNum(s[n + 1])
         IN  [name |-> SubSeq(s, 1, n), w |-> n]

\* the mapperfunc of configEnvs
mapperfunc(value, computedEnv, projectDir) ==
    IF value = <<"PWD">> THEN projectDir
    ELSE IF value \in DOMAIN computedEnv THEN computedEnv[value]
    ELSE <<>>

RECURSIVE osExpand(_, _, _)
\* os.Expand(s, mapperfunc)
osExpand(s, computedEnv, projectDir) ==
    IF s = <<>> THEN <<>>
    ELSE IF Head(s) = "$" /\ Len(s) > 1
    THEN LET n    == getShellName(Tail(s))
             rest == osExpand(SubSeq(s, 2 + n.w, Len(s)), computedEnv, projectDir)
         IN  IF n.name = <<>> /\ n.w > 0 THEN rest
             ELSE IF n.name = <<>> THEN <<"$">> \o rest
             ELSE mapperfunc(n.name, computedEnv, projectDir) \o rest
    ELSE <<Head(s)>> \o osExpand(Tail(s), computedEnv, projectDir)

\* a configuration layer that takes the declared values verbatim
configEnvsVerbatim(computedEnv, cfgEnv, projectDir) == cfgEnv

\* a configuration layer whose references see the declared values
configEnvsChained(computedEnv, cfgEnv, projectDir) ==
    [key \in DOMAIN cfgEnv |->
        osExpand(cfgEnv[key], Merge(computedEnv, cfgEnv), projectDir)]

\* Devbox.configEnvs, cfgEnv being d.cfg.Env
configEnvs(computedEnv, cfgEnv, projectDir) ==
    [key \in DOMAIN cfgEnv |-> osExpand(cfgEnv[key], computedEnv, projectDir)]

\* the mapping computeNixEnv holds once the build layer is merged (the one
\* whose PATH it logs as the nix environment PATH); empty if the
\* composition fails before
AfterBuildLayer(in) ==
    LET cur == CopyCurrentEnv(in.currentEnv, EmptyMap) IN
    IF cur.err # NoErr \/ ~in.devEnv.ok THEN EmptyMap
    ELSE CopyDevEnv(in.devEnv.Variables, cur.env)

\* a composition that hands back the layers merged before a failure
computeNixEnvPartial(in) ==
    LET cur == CopyCurrentEnv(in.currentEnv, EmptyMap) IN
    IF cur.err # NoErr THEN [nil |-> TRUE, env |-> EmptyMap, err |-> cur.err]
    ELSE IF ~in.devEnv.ok
    THEN [nil |-> FALSE, env |-> cur.env, err |-> "nix.PrintDevEnv"]
    ELSE [nil |-> FALSE, env |-> CopyDevEnv(in.devEnv.Variables, cur.env),
          err |-> IF in.pluginEnv.ok THEN NoErr ELSE "plugin.Env"]

\* a composition that puts the ambient PATH ahead of the build's
computeNixEnvAmbientFirst(in) ==
    LET cur == CopyCurrentEnv(in.currentEnv, EmptyMap) IN
    IF cur.err # NoErr THEN [nil |-> TRUE, env |-> EmptyMap, err |-> cur.err]
    ELSE IF ~in.devEnv.ok
    THEN [nil |-> TRUE, env |-> EmptyMap, err |-> "nix.PrintDevEnv"]
    ELSE IF ~in.pluginEnv.ok
    THEN [nil |-> TRUE, env |-> EmptyMap, err |-> "plugin.Env"]
    ELSE
    LET env1 == CopyDevEnv(in.devEnv.Variables, cur.env)
        env2 == Put(Put(env1, <<"__ETC_PROFILE_NIX_SOURCED">>, <<"1">>),
                    <<"DEVBOX_SHELL_ENABLED">>, <<"1">>)
        env3 == Merge(env2, in.pluginEnv.env)
        env4 == IF in.EnvConfig
                THEN Merge(env3, configEnvs(env3, in.cfgEnv, in.projectDir))
                ELSE env3
    IN  [nil |-> FALSE,
         env |-> Put(env4, <<"PATH">>,
                     JoinPathLists(pluginVirtenvPath(in.projectDir),
                                   Get(cur.env, <<"PATH">>),
                                   Get(env1, <<"PATH">>))),
         err |-> NoErr]

\* a composition that merges the plugin variables before the build's
computeNixEnvPluginFirst(in) ==
    LET cur == CopyCurrentEnv(in.currentEnv, EmptyMap) IN
    IF cur.err # NoErr THEN [nil |-> TRUE, env |-> EmptyMap, err |-> cur.err]
    ELSE IF ~in.devEnv.ok
    THEN [nil |-> TRUE, env |-> EmptyMap, err |-> "nix.PrintDevEnv"]
    ELSE IF ~in.pluginEnv.ok
    THEN [nil |-> TRUE, env |-> EmptyMap, err |-> "plugin.Env"]
    ELSE
    LET env0 == Merge(cur.env, in.pluginEnv.env)
        env1 == CopyDevEnv(in.devEnv.Variables, env0)
        env3 == Put(Put(env1, <<"__ETC_PROFILE_NIX_SOURCED">>, <<"1">>),
                    <<"DEVBOX_SHELL_ENABLED">>, <<"1">>)
        env4 == IF in.EnvConfig
                THEN Merge(env3, configEnvs(env3, in.cfgEnv, in.projectDir))
                ELSE env3
    IN  [nil |-> FALSE,
         env |-> Put(env4, <<"PATH">>,
                     JoinPathLists(pluginVirtenvPath(in.projectDir),
                                   Get(CopyDevEnv(in.devEnv.Variables, cur.env),
                                       <<"PATH">>),
                                   Get(cur.env, <<"PATH">>))),
         err |-> NoErr]

\* a composition that sets a synthetic flag only where the ambient and the
\* build layers left none
computeNixEnvFlagsIfAbsent(in) ==
    LET cur == CopyCurrentEnv(in.currentEnv, EmptyMap) IN
    IF cur.err # NoErr THEN [nil |-> TRUE, env |-> EmptyMap, err |-> cur.err]
    ELSE
    LET currentEnvPath == Get(cur.env, <<"PATH">>) IN
    IF ~in.devEnv.ok
    THEN [nil |-> TRUE, env |-> EmptyMap, err |-> "nix.PrintDevEnv"]
    ELSE
    LET env1 == CopyDevEnv(in.devEnv.Variables, cur.env)
        nixEnvPath == Get(env1, <<"PATH">>)
        flags == [k \in {<<"__ETC_PROFILE_NIX_SOURCED">>,
                         <<"DEVBOX_SHELL_ENABLED">>} |-> <<"1">>]
        env2 == Merge(flags, env1)
    IN
    IF ~in.pluginEnv.ok
    THEN [nil |-> TRUE, env |-> EmptyMap, err |-> "plugin.Env"]
    ELSE
    LET env3 == Merge(env2, in.pluginEnv.env)
        env4 == IF in.EnvConfig
                THEN Merge(env3, configEnvs(env3, in.cfgEnv, in.projectDir))
                ELSE env3
    IN  [nil |-> FALSE,
         env |-> Put(env4, <<"PATH">>,
                     JoinPathLists(pluginVirtenvPath(in.projectDir),
                                   nixEnvPath, currentEnvPath)),
         err |-> NoErr]

\* a composition that joins the path list with the PATH the later layers
\* left instead of the one recorded after the build layer
computeNixEnvLatePath(in) ==
    LET cur == CopyCurrentEnv(in.currentEnv, EmptyMap) IN
    IF cur.err # NoErr THEN [nil |-> TRUE, env |-> EmptyMap, err |-> cur.err]
    ELSE
    LET currentEnvPath == Get(cur.env, <<"PATH">>) IN
    IF ~in.devEnv.ok
    THEN [nil |-> TRUE, env |-> EmptyMap, err |-> "nix.PrintDevEnv"]
    ELSE
    LET env1 == CopyDevEnv(in.devEnv.Variables, cur.env)
        env2 == Put(Put(env1, <<"__ETC_PROFILE_NIX_SOURCED">>, <<"1">>),
                    <<"DEVBOX_SHELL_ENABLED">>, <<"1">>)
    IN
    IF ~in.pluginEnv.ok
    THEN [nil |-> TRUE, env |-> EmptyMap, err |-> "plugin.Env"]
    ELSE
    LET env3 == Merge(env2, in.pluginEnv.env)
        env4 == IF in.EnvConfig
                THEN Merge(env3, configEnvs(env3, in.cfgEnv, in.projectDir))
                ELSE env3
        nixEnvPath == Get(env4, <<"PATH">>)
    IN  [nil |-> FALSE,
         env |-> Put(env4, <<"PATH">>,
                     JoinPathLists(pluginVirtenvPath(in.projectDir),
                                   nixEnvPath, currentEnvPath)),
         err |-> NoErr]

\* Devbox.computeNixEnv.  in: currentEnv (os.Environ()), devEnv (the result
\* of nix.PrintDevEnv), pluginEnv (the result of plugin.Env), cfgEnv
\* (d.cfg.Env), EnvConfig (the feature flag), projectDir.
computeNixEnv(in) ==
    LET cur == CopyCurrentEnv(in.currentEnv, EmptyMap) IN
    IF cur.err # NoErr THEN [nil |-> TRUE, env |-> EmptyMap, err |-> cur.err]
    ELSE
    LET currentEnvPath == Get(cur.env, <<"PATH">>) IN
    IF ~in.devEnv.ok
    THEN [nil |-> TRUE, env |-> EmptyMap, err |-> "nix.PrintDevEnv"]
    ELSE
    LET env1 == CopyDevEnv(in.devEnv.Variables, cur.env)
        nixEnvPath == Get(env1, <<"PATH">>)
        env2 == Put(Put(env1, <<"__ETC_PROFILE_NIX_SOURCED">>, <<"1">>),
                    <<"DEVBOX_SHELL_ENABLED">>, <<"1">>)
    IN
    IF ~in.pluginEnv.ok
    THEN [nil |-> TRUE, env |-> EmptyMap, err |-> "plugin.Env"]
    ELSE
    LET env3 == Merge(env2, in.pluginEnv.env)
        env4 == IF in.EnvConfig
                THEN Merge(env3, configEnvs(env3, in.cfgEnv, in.projectDir))
                ELSE env3
    IN  [nil |-> FALSE,
         env |-> Put(env4, <<"PATH">>,
                     JoinPathLists(pluginVirtenvPath(in.projectDir),
                                   nixEnvPath, currentEnvPath)),
         err |-> NoErr]

----------------------------------------------------------------------------
(* writeScriptsToFiles: the scripts directory.                             *)
(*                                                                         *)
(* The directory is a function from file names to entries [kind, mode,     *)
(* body]; a file name and a body are sequences of tokens.  A failure is    *)
(* [site, file, n]: the system call `site` fails when applied to `file`    *)
(* (<<>> for the calls on the directory itself); n is the number of tokens *)
(* a failing WriteString has written, 0 for every other call.              *)

\* the empty scripts directory
NoFiles == [f \in {} |-> [kind |-> "file", mode |-> "0755", body |-> <<>>]]

\* the failure of the system call `site` on `file`
Failure(site, file) == [site |-> site, file |-> file, n |-> 0]

\* the system call `site` fails on `file`
FailsAt(fails, site, file) == \E x \in fails : x.site = site /\ x.file = file

\* the tokens of body that the failing WriteString on `file` has written:
\* fewer than all of them
WrittenBy(fails, file, body) ==
    LET x == CHOOSE y \in fails : y.site = "WriteString" /\ y.file = file
        most == IF body = <<>> THEN 0 ELSE Len(body) - 1
    IN  SubSeq(body, 1, IF x.n < most THEN x.n ELSE most)

\* the failures of WriteString(body) on `file`
WriteFails(file, body) ==
    { [site |-> "WriteString", file |-> file, n |-> k] :
        k \in { j \in 0..MaxFree : j = 0 \/ j < Len(body) } }

\* the directory with entry f set to e
WithFile(dir, f, e) == [x \in DOMAIN dir \cup {f} |-> IF x = f THEN e ELSE dir[x]]

\* a writeScriptFile that opens the file for appending
writeScriptFileAppending(dir, projectDir, name, body, fails) ==
    LET f == scriptFilename(name) IN
    [files |-> WithFile(dir, f,
                   [kind |-> "file", mode |-> "0755",
                    body |-> IF f \in DOMAIN dir THEN dir[f].body \o body
                             ELSE body]),
     err |-> NoErr]

\* Devbox.writeScriptFile: os.Create, Chmod(0755), WriteString, Close
writeScriptFile(dir, projectDir, name, body, fails) ==
    LET f == scriptFilename(name) IN
    IF FailsAt(fails, "os.Create", f) \/ (f \in DOMAIN dir /\ dir[f].kind = "dir")
    THEN [files |-> dir, err |-> "os.Create"]
    ELSE
    LET created == WithFile(dir, f,
                       [kind |-> "file",
                        mode |-> IF f \in DOMAIN dir THEN dir[f].mode ELSE "0644",
                        body |-> <<>>])
        written  == WithFile(dir, f, [kind |-> "file", mode |-> "0755", body |-> body])
    IN
    IF FailsAt(fails, "Chmod", f) THEN [files |-> created, err |-> "Chmod"]
    ELSE IF FailsAt(fails, "WriteString", f)
    THEN [files |-> WithFile(dir, f, [kind |-> "file", mode |-> "0755",
                                      body |-> WrittenBy(fails, f, body)]),
          err |-> "WriteString"]
    ELSE IF FailsAt(fails, "Close", f) THEN [files |-> written, err |-> "Close"]
    ELSE [files |-> written, err |-> NoErr]

RECURSIVE WriteScripts(_, _, _, _, _)
\* the loop over d.cfg.Shell.Scripts, visited in the sequence `order`
WriteScripts(dir, projectDir, scripts, order, fails) ==
    IF order = <<>> THEN [files |-> dir, err |-> NoErr]
    ELSE LET w == writeScriptFile(dir, projectDir, Head(order),
                                  scriptBody(projectDir, scripts[Head(order)]),
                                  fails)
         IN  IF w.err # NoErr THEN w
             ELSE WriteScripts(w.files, projectDir, scripts, Tail(order), fails)

\* the file names the run has written
Written(scripts) ==
    {scriptFilename(hooksFilename)} \cup { scriptFilename(n) : n \in DOMAIN scripts }

\* a clean-up that removes nothing
DeleteUnwrittenNever(dir, entries, written, fails) == dir

\* the loop that deletes the entries read before the run that the run did
\* not write; a failing os.Remove is logged and skipped
DeleteUnwritten(dir, entries, written, fails) ==
    LET removed == { e \in DOMAIN entries :
                        /\ e \notin written
                        /\ entries[e].kind # "dir"
                        /\ ~FailsAt(fails, "os.Remove", e) }
    IN  [f \in DOMAIN dir \ removed |-> dir[f]]

\* Devbox.writeScriptsToFiles on the directory dir, with the project's init
\* hook, the hooks of its plugins, its declared scripts (name -> body) and
\* the order in which the map of scripts is visited: [files, err]
writeScriptsToFiles(dir, projectDir, initHook, pluginHooks, scripts, order, fails) ==
    IF FailsAt(fails, "os.MkdirAll", <<>>) THEN [files |-> dir, err |-> "os.MkdirAll"]
    ELSE IF FailsAt(fails, "os.ReadDir", <<>>) THEN [files |-> dir, err |-> "os.ReadDir"]
    ELSE IF FailsAt(fails, "plugin.InitHooks", <<>>)
    THEN [files |-> dir, err |-> "plugin.InitHooks"]
    ELSE
    LET entries == dir
        hooks == stringsJoin(<<initHook>> \o pluginHooks, "\n\n")
        w0 == writeScriptFile(dir, projectDir, hooksFilename, hooks, fails)
    IN
    IF w0.err # NoErr THEN w0
    ELSE
    LET w1 == WriteScripts(w0.files, projectDir, scripts, order, fails) IN
    IF w1.err # NoErr THEN w1
    ELSE [files |-> DeleteUnwritten(w1.files, entries, Written(scripts), fails),
          err |-> NoErr]

\* the system calls of a run of writeScriptsToFiles that can fail
MatSites(dir, projectDir, initHook, pluginHooks, scripts) ==
    { Failure(s, <<>>) : s \in {"os.MkdirAll", "os.ReadDir", "plugin.InitHooks"} }
    \cup { Failure(s, f) : s \in {"os.Create", "Chmod", "Close"},
                           f \in Written(scripts) }
    \cup WriteFails(scriptFilename(hooksFilename),
                    stringsJoin(<<initHook>> \o pluginHooks, "\n\n"))
    \cup UNION { WriteFails(scriptFilename(n), scriptBody(projectDir, scripts[n])) :
                   n \in DOMAIN scripts }
    \cup { Failure("os.Remove", f) : f \in DOMAIN dir }

\* the body of the artifact of arbitrary commands
CmdText(projectDir) == scriptBody(projectDir, <<"eval $DEVBOX_RUN_CMD\n">>)

\* the system calls of writeScriptFile(arbitraryCmdFilename, ...) that can fail
CmdSites(projectDir) ==
    { Failure(s, scriptFilename(arbitraryCmdFilename)) :
        s \in {"os.Create", "Chmod", "Close"} }
    \cup WriteFails(scriptFilename(arbitraryCmdFilename), CmdText(projectDir))

----------------------------------------------------------------------------
(* A one-shot execution and the scripts directory: what Devbox.RunScript   *)
(* leaves in .devbox/gen/scripts.  A failure is as for the materializer;   *)
(* the steps outside the directory fail with file <<>>.                    *)

\* the first of the names in `sites`, in their order, that fails
RECURSIVE FirstFailing(_, _)
FirstFailing(sites, fails) ==
    IF sites = <<>> THEN NoErr
    ELSE IF FailsAt(fails, Head(sites), <<>>) THEN Head(sites)
    ELSE FirstFailing(Tail(sites), fails)

\* Devbox.RunScriptInNewNixShell on the scripts directory dir, which it does
\* not touch: [files, err]
RunScriptInNewNixShellFiles(dir, scripts, scriptName, fails) ==
    LET before == FirstFailing(<<"ensurePackagesAreInstalled", "profilePath">>, fails)
    IN  [files |-> dir,
         err |-> IF before # NoErr THEN before
                 ELSE IF scriptName \notin DOMAIN scripts
                 THEN "unable to find a script"
                 ELSE FirstFailing(<<"plugin.InitHooks", "plugin.Env",
                                     "nix.NewDevboxShell", "shell.Run">>, fails)]

\* a RunScript that writes the artifact of arbitrary commands before it
\* materializes the scripts
RunScriptFilesCmdFirst(dir, projectDir, initHook, pluginHooks, scripts, order, cmdName, UnifiedEnv, fails) ==
    IF ~UnifiedEnv THEN RunScriptInNewNixShellFiles(dir, scripts, cmdName, fails)
    ELSE IF FailsAt(fails, "ensurePackagesAreInstalled", <<>>)
    THEN [files |-> dir, err |-> "ensurePackagesAreInstalled"]
    ELSE
    LET c == IF cmdName \in DOMAIN scripts THEN [files |-> dir, err |-> NoErr]
             ELSE writeScriptFile(dir, projectDir, arbitraryCmdFilename,
                                  CmdText(projectDir), fails)
    IN
    IF c.err # NoErr THEN c
    ELSE
    LET w == writeScriptsToFiles(c.files, projectDir, initHook, pluginHooks,
                                 scripts, order, fails)
    IN
    IF w.err # NoErr THEN w
    ELSE IF FailsAt(fails, "computeNixEnv", <<>>)
    THEN [files |-> w.files, err |-> "computeNixEnv"]
    ELSE IF FailsAt(fails, "nix.RunScript", <<>>)
    THEN [files |-> w.files, err |-> "nix.RunScript"]
    ELSE [files |-> w.files, err |-> NoErr]

\* Devbox.RunScript on the scripts directory dir: [files, err]
RunScriptFiles(dir, projectDir, initHook, pluginHooks, scripts, order, cmdName, UnifiedEnv, fails) ==
    IF ~UnifiedEnv THEN RunScriptInNewNixShellFiles(dir, scripts, cmdName, fails)
    ELSE IF FailsAt(fails, "ensurePackagesAreInstalled", <<>>)
    THEN [files |-> dir, err |-> "ensurePackagesAreInstalled"]
    ELSE
    LET w == writeScriptsToFiles(dir, projectDir, initHook, pluginHooks,
                                 scripts, order, fails)
    IN
    IF w.err # NoErr THEN w
    ELSE IF FailsAt(fails, "computeNixEnv", <<>>)
    THEN [files |-> w.files, err |-> "computeNixEnv"]
    ELSE
    LET c == IF cmdName \in DOMAIN scripts THEN w
             ELSE writeScriptFile(w.files, projectDir, arbitraryCmdFilename,
                                  CmdText(projectDir), fails)
    IN
    IF c.err # NoErr THEN c
    ELSE IF FailsAt(fails, "nix.RunScript", <<>>)
    THEN [files |-> c.files, err |-> "nix.RunScript"]
    ELSE [files |-> c.files, err |-> NoErr]

----------------------------------------------------------------------------
(* The init text of an interactive shell: shellrc.tmpl rendered with the   *)
(* data Devbox.Shell hands to the shell.  The text is the sequence of its  *)
(* sections, each one [sec, text]; a field of the data is a string, and a  *)
(* template `if` or `with` takes its branch when the string is not empty.  *)

\* one section of the text, present when cond holds
Section(cond, sec, text) ==
    IF cond THEN <<[sec |-> sec, text |-> text]>> ELSE <<>>

\* the template with the last two hook sections in the other order
shellrcTmplUserHookFirst(d) ==
    Section(d.OriginalInitPath # <<>>, "source", <<". ">> \o d.OriginalInitPath)
    \o Section(TRUE, "export",
               IF d.ExportEnv # <<>> THEN d.ExportEnv
               ELSE <<"PATH=">> \o d.PathPrepend \o <<":$PATH">>)
    \o Section(d.HistoryFile # <<>>, "HISTFILE", <<"HISTFILE=">> \o d.HistoryFile)
    \o Section(TRUE, "PS1", <<"export PS1=\"(devbox) $PS1\"">>)
    \o Section(d.ShellStartTime # <<>>, "shell-ready",
               <<"devbox log shell-ready ">> \o d.ShellStartTime)
    \o Section(TRUE, "cd project", <<"working_dir=\"$(pwd)\"", "cd ">> \o d.ProjectDir)
    \o Section(d.UserHook # <<>>, "user hook", d.UserHook)
    \o Section(d.PluginInitHook # <<>>, "plugin hook", d.PluginInitHook)
    \o Section(TRUE, "cd back", <<"cd \"$working_dir\"">>)
    \o Section(d.ShellStartTime # <<>>, "shell-interactive",
               <<"devbox log shell-interactive ">> \o d.ShellStartTime)
    \o Section(d.ScriptCommand # <<>>, "run_script",
               <<"cd ">> \o d.ProjectDir \o d.ScriptCommand
               \o <<"cd \"$working_dir\"">>)

\* shellrc.tmpl
shellrcTmpl(d) ==
    Section(d.OriginalInitPath # <<>>, "source", <<". ">> \o d.OriginalInitPath)
    \o Section(TRUE, "export",
               IF d.ExportEnv # <<>> THEN d.ExportEnv
               ELSE <<"PATH=">> \o d.PathPrepend \o <<":$PATH">>)
    \o Section(d.HistoryFile # <<>>, "HISTFILE", <<"HISTFILE=">> \o d.HistoryFile)
    \o Section(TRUE, "PS1", <<"export PS1=\"(devbox) $PS1\"">>)
    \o Section(d.ShellStartTime # <<>>, "shell-ready",
               <<"devbox log shell-ready ">> \o d.ShellStartTime)
    \o Section(TRUE, "cd project", <<"working_dir=\"$(pwd)\"", "cd ">> \o d.ProjectDir)
    \o Section(d.PluginInitHook # <<>>, "plugin hook", d.PluginInitHook)
    \o Section(d.UserHook # <<>>, "user hook", d.UserHook)
    \o Section(TRUE, "cd back", <<"cd \"$working_dir\"">>)
    \o Section(d.ShellStartTime # <<>>, "shell-interactive",
               <<"devbox log shell-interactive ">> \o d.ShellStartTime)
    \o Section(d.ScriptCommand # <<>>, "run_script",
               <<"cd ">> \o d.ProjectDir \o d.ScriptCommand
               \o <<"cd \"$working_dir\"">>)

\* the hooks Devbox.Shell gives the shell: WithPluginInitHook and UserInitHook
ShellHooks(initHook, pluginHooks) ==
    [PluginInitHook |-> stringsJoin(pluginHooks, "\n"),
     UserHook       |-> initHook]

----------------------------------------------------------------------------
(* The package-intent state machine: calls on one Devbox value, and Open   *)
(* loading a fresh one from devbox.json.                                   *)

\* the argument lists of Add and Remove
ArgLists == SeqsUpTo(PkgIds, MaxArgs)

\* the sets of external steps that fail, should the call reach them
FailSets(sites) == { f \in SUBSET sites : Cardinality(f) <= MaxFail }

SyncSites == {"generateShellFiles", "profile", "RemoveInvalidSymlinks"}

AddSites == {"saveCfg", "rollbackSaveCfg", "PrintReadme",
             "printPackageUpdateMessage"} \cup SyncSites

RemoveSites == {"saveCfg", "plugin.Remove", "removePackagesFromProfile",
                "printPackageUpdateMessage"} \cup SyncSites

\* a single external step failing, or none
FailOne(sites) == {{}} \cup { {x} : x \in sites }

ShellSites == {"profilePath", "plugin.InitHooks", "computeNixEnv", "plugin.Env",
               "nix.NewDevboxShell", "shell.Run"} \cup SyncSites

ExecSites == {"writeScriptsToFiles", "writeScriptFile", "nix.RunScript",
              "profileBinPath", "nix.Exec"} \cup ShellSites

FeatureFlags == [Flakes : BOOLEAN, UnifiedEnv : BOOLEAN]

\* the words of a command line: its first word names a declared script or a
\* program, the words after it are arguments handed on untouched
CmdNames == {"build", "echo"}

CmdArgWords == {"hi"}

CmdLists ==
    {<<>>} \cup { <<c>> \o a : c \in CmdNames,
                              a \in SeqsUpTo(CmdArgWords, MaxArgs - 1) }

Result(op, pkgs, r) ==
    [op |-> op, pkgs |-> pkgs, preCfg |-> cfg, preDisk |-> disk,
     err |-> r.err, trace |-> r.trace]

\* no call is in progress: the caller has taken the last call's result
Idle == [op |-> "idle", pkgs |-> <<>>, preCfg |-> <<>>, preDisk |-> <<>>,
         err |-> NoErr, trace |-> <<>>]

\* no `devbox shell` request is in progress
ShellIdle == [op |-> "idle", marker |-> [set |-> FALSE, value |-> ""],
              printEnv |-> FALSE, cmds |-> <<>>, ff |-> <<>>,
              err |-> NoErr, trace |-> <<>>]

\* no composition is in progress
CompIdle == [op |-> "idle"]

\* no run of the script materializer has been recorded
MatIdle == [op |-> "idle"]

RcIdle == [op |-> "idle"]

\* no one-shot execution has been recorded
RunIdle == [op |-> "idle"]

\* the invocations that can run on the project at one time
Procs == {1, 2}

\* an invocation that has not opened the project, or has returned
NotRunning == [pc |-> "idle", op |-> "", pkgs |-> <<>>, cfg |-> <<>>,
               loaded |-> <<>>, wrote |-> <<>>]

\* no invocation has been made
NoCalls == [inv |-> [p \in Procs |-> NotRunning], log |-> <<>>,
            serial |-> TRUE, start |-> <<>>]

InitPkg ==
    /\ disk \in Intents
    /\ cfg = disk
    /\ last = Idle

\* the calls of devbox.Open that return an error
OpenSites == {"findProjectDir", "ReadConfig", "upgradeConfig"}

\* devbox.Open on the devbox.json `persisted`: findProjectDir, ReadConfig,
\* upgradeConfig, then the new Devbox value; an error returns no value.
\* upgradeConfig is given the loaded config and the path of the file; it is
\* taken to leave the list of packages, in the config and in the file, as
\* it is.  ReadConfig fails on a file that does not parse.
OpenDevbox(persisted, fails) ==
    LET reads == IF persisted = TornFile THEN fails \cup {"ReadConfig"} ELSE fails
        s == Step(Step(Step(Call(<<>>, persisted), "findProjectDir", <<>>, fails),
                       "ReadConfig", <<>>, reads),
                  "upgradeConfig", <<>>, fails)
    IN  IF s.err # NoErr THEN s ELSE [s EXCEPT !.cfg = persisted]

\* d.cfg.Shell.Scripts and d.cfg.Shell.InitHook of the project: the script
\* "build" and no init hook, no plugin
ProjectScripts == [n \in Scripts |-> <<"echo 1">>]

ProjectInitHook == <<>>

\* the orders in which the range over the project's scripts can visit them
ProjectOrders ==
    { o \in SeqsUpTo(Scripts, Cardinality(Scripts)) :
        Len(o) = Cardinality(Scripts) /\ Range(o) = Scripts }

\* the scripts directories a call of writeScriptsToFiles can leave from dir,
\* the call returning an error or not as `ok` says: the run of the
\* materializer with one system call failing, or none
AfterWriteScriptsToFiles(dir, ok) ==
    { w.files :
        w \in { r \in { writeScriptsToFiles(dir, ProjectDir, ProjectInitHook, <<>>,
                                            ProjectScripts, order, fails) :
                           order \in ProjectOrders,
                           fails \in FailOne(MatSites(dir, ProjectDir, ProjectInitHook,
                                                      <<>>, ProjectScripts)) } :
                  (r.err = NoErr) = ok } }

\* the scripts directories the writeScriptFile of the artifact of arbitrary
\* commands can leave from dir
AfterWriteScriptFile(dir, ok) ==
    { w.files :
        w \in { r \in { writeScriptFile(dir, ProjectDir, arbitraryCmdFilename,
                                        CmdText(ProjectDir), fails) :
                           fails \in FailOne(CmdSites(ProjectDir)) } :
                  (r.err = NoErr) = ok } }

RECURSIVE ScriptsDirsAfter(_, _)
\* the scripts directories the calls a trace records can leave from dir:
\* every writeScriptsToFiles and writeScriptFile of the trace has run on
\* the directory, to its end when the trace records it as succeeded and up
\* to a failing system call when the trace records it as failed
ScriptsDirsAfter(dir, trace) ==
    IF trace = <<>> THEN {dir}
    ELSE
    LET e == Head(trace)
        next == IF e.ev = "writeScriptsToFiles" THEN AfterWriteScriptsToFiles(dir, e.ok)
                ELSE IF e.ev = "writeScriptFile" THEN AfterWriteScriptFile(dir, e.ok)
                ELSE {dir}
    IN  UNION { ScriptsDirsAfter(d, Tail(trace)) : d \in next }

\* devbox.Open: read devbox.json into a new Devbox value; when Open returns
\* an error there is no new value and the caller keeps the one it has
Open ==
    /\ last = Idle
    /\ \E fails \in FailOne(OpenSites) :
        LET r == OpenDevbox(disk, fails) IN
        /\ cfg' = IF r.err = NoErr THEN r.cfg ELSE cfg
        /\ disk' = r.disk
        /\ last' = Result("Open", <<>>, r)
    /\ UNCHANGED <<shell, comp, files, mat, rc, conc, run>>

\* what the failing write of a call can leave: the file as it was (no
\* outcome named), a torn file or the new contents; a call without a
\* failing write has no outcome to draw
FailedWrites(fails) ==
    IF fails \cap {"saveCfg", "rollbackSaveCfg"} = {} THEN {{}}
    ELSE {{}} \cup { {o} : o \in WriteLeaves }

\* Add returns at its first error, except that after a failed sync the
\* rollback's persist can fail as well
AddFails ==
    { f \in FailSets(AddSites) : Cardinality(f \ {"rollbackSaveCfg"}) <= 1 }

DoAdd ==
    /\ last = Idle
    /\ \E pkgs \in ArgLists, fl \in BOOLEAN, fails \in AddFails :
       \E left \in FailedWrites(fails) :
        LET r == Add(Call(cfg, disk), pkgs, fl, fails \cup left) IN
        /\ cfg' = r.cfg
        /\ disk' = r.disk
        /\ last' = Result("Add", pkgs, r)
    /\ UNCHANGED <<shell, comp, files, mat, rc, conc, run>>

\* Remove returns at its first error, so one failing step is every outcome
DoRemove ==
    /\ last = Idle
    /\ \E pkgs \in ArgLists, fl \in BOOLEAN, fails \in FailOne(RemoveSites) :
       \E left \in FailedWrites(fails) :
        LET r == Remove(Call(cfg, disk), pkgs, fl, fails \cup left) IN
        /\ cfg' = r.cfg
        /\ disk' = r.disk
        /\ last' = Result("Remove", pkgs, r)
    /\ UNCHANGED <<shell, comp, files, mat, rc, conc, run>>

DoShell ==
    /\ last = Idle
    /\ \E ff \in FeatureFlags, fails \in FailOne(ShellSites) :
        LET r == Shell(Call(cfg, disk), ff, fails) IN
        /\ cfg' = r.cfg
        /\ disk' = r.disk
        /\ last' = Result("Shell", <<>>, r)
    /\ UNCHANGED <<shell, comp, files, mat, rc, conc, run>>

DoExec ==
    /\ last = Idle
    /\ \E cmds \in CmdLists, ff \in FeatureFlags, fails \in FailOne(ExecSites) :
        LET r == Exec(Call(cfg, disk), cmds, ff, fails) IN
        /\ cfg' = r.cfg
        /\ disk' = r.disk
        /\ files' \in ScriptsDirsAfter(files, r.trace)
        /\ last' = Result("Exec", cmds, r)
    /\ UNCHANGED <<shell, comp, mat, rc, conc, run>>

\* `devbox run <cmd> <args>`: Devbox.RunScript
DoRun ==
    /\ last = Idle
    /\ \E cmds \in CmdLists \ {<<>>}, ff \in FeatureFlags,
          fails \in FailOne(ExecSites) :
        LET r == RunScript(Call(cfg, disk), Head(cmds), Tail(cmds), ff, fails) IN
        /\ cfg' = r.cfg
        /\ disk' = r.disk
        /\ files' \in ScriptsDirsAfter(files, r.trace)
        /\ last' = Result("RunScript", cmds, r)
    /\ UNCHANGED <<shell, comp, mat, rc, conc, run>>

\* the call has returned and its caller goes on
Return ==
    /\ last # Idle
    /\ last' = Idle
    /\ UNCHANGED <<cfg, disk, shell, comp, files, mat, rc, conc, run>>

Init ==
    /\ InitPkg /\ shell = ShellIdle /\ comp = CompIdle
    /\ files = NoFiles /\ mat = MatIdle /\ rc = RcIdle /\ conc = NoCalls /\ run = RunIdle

Next == Open \/ DoAdd \/ DoRemove \/ DoShell \/ Return

Spec == Init /\ [][Next]_vars

----------------------------------------------------------------------------
(* The calls that sync in ensure mode: the interactive shell and the       *)
(* one-shot executions, which write the scripts directory.                 *)

\* the Devbox value holds the packages of devbox.json, as Open read them, or
\* one more: the package of an Add whose persist failed
InitExec ==
    /\ disk \in {<<>>, <<"x">>}
    /\ cfg \in {disk, disk \o <<"y">>}
    /\ last = Idle
    /\ shell = ShellIdle
    /\ comp = CompIdle
    /\ files = NoFiles
    /\ mat = MatIdle
    /\ rc = RcIdle
    /\ conc = NoCalls /\ run = RunIdle

NextExec == Open \/ DoShell \/ DoExec \/ DoRun \/ Return

SpecExec == InitExec /\ [][NextExec]_vars

----------------------------------------------------------------------------
(* The shell command as a process of its own: every request opens the      *)
(* project anew.                                                           *)

\* values the marker can have in the ambient environment
MarkerValues == {"", "0", "1", "t", "true", "TRUE", "false", "yes"}

Markers == {[set |-> FALSE, value |-> ""]}
               \cup { [set |-> TRUE, value |-> v] : v \in MarkerValues }

ShellCmdSites == {"parseShellArgs", "devbox.Open"} \cup ExecSites

InitShell ==
    /\ disk \in {<<>>, <<"x", "y">>}
    /\ cfg = disk
    /\ last = Idle
    /\ shell = ShellIdle
    /\ comp = CompIdle
    /\ files = NoFiles
    /\ mat = MatIdle
    /\ rc = RcIdle
    /\ conc = NoCalls /\ run = RunIdle

DoShellCmd ==
    /\ shell = ShellIdle
    /\ \E marker \in Markers, printEnv \in BOOLEAN, cmds \in CmdLists,
          ff \in FeatureFlags, fails \in FailOne(ShellCmdSites) :
        LET r == runShellCmd(Call(cfg, disk), marker, printEnv, cmds, ff, fails) IN
        /\ cfg' = r.cfg
        /\ disk' = r.disk
        /\ shell' = [op |-> "shell", marker |-> marker, printEnv |-> printEnv,
                     cmds |-> cmds, ff |-> ff, err |-> r.err, trace |-> r.trace]
        /\ files' \in ScriptsDirsAfter(files, r.trace)
    /\ UNCHANGED <<last, comp, mat, rc, conc, run>>

\* the process of the request has exited
ShellExit ==
    /\ shell # ShellIdle
    /\ shell' = ShellIdle
    /\ UNCHANGED <<cfg, disk, last, comp, files, mat, rc, conc, run>>

NextShell == DoShellCmd \/ ShellExit

SpecShell == InitShell /\ [][NextShell]_vars

----------------------------------------------------------------------------
(* Compositions: computeNixEnv applied to bounded inputs.                  *)

\* entries os.Environ() can hold
AmbientEntries ==
    {<<"PATH", "=", "/c">>,
     <<"PWD", "=", "/old">>,
     <<"HOME", "=", "/home/u">>,
     <<"FOO", "=", "a", "=", "b">>,
     <<"DEVBOX_SHELL_ENABLED", "=", "0">>,
     <<"SSL_CERT_FILE", "=", "/amb.crt">>,
     <<"SHELL", "=", "/bin/zsh">>,
     <<"JUNK">>}

\* entries `nix print-dev-env` can report
DevEnvEntries ==
    {[key |-> <<"PATH">>, val |-> [Type |-> "exported", Value |-> <<"/b">>]],
     [key |-> <<"PATH">>, val |-> [Type |-> "exported", Value |-> <<"/c">>]],
     [key |-> <<"HOME">>, val |-> [Type |-> "exported", Value |-> <<"/homeless-shelter">>]],
     [key |-> <<"SSL_CERT_FILE">>, val |-> [Type |-> "exported", Value |-> NoCertFile]],
     [key |-> <<"SSL_CERT_FILE">>, val |-> [Type |-> "exported", Value |-> <<"/nix.crt">>]],
     [key |-> <<"FOO">>, val |-> [Type |-> "exported", Value |-> <<"built">>]],
     [key |-> <<"FOO">>, val |-> [Type |-> "var", Value |-> <<"v">>]],
     [key |-> <<"SHELL">>, val |-> [Type |-> "exported", Value |-> <<"/bin/bash">>]],
     [key |-> <<"PWD">>, val |-> [Type |-> "exported", Value |-> <<"/build">>]]}

\* variables the plugins can contribute
PluginEntries ==
    {[key |-> <<"FOO">>, val |-> <<"plug">>],
     [key |-> <<"BAR">>, val |-> <<"baz">>],
     [key |-> <<"PATH">>, val |-> <<"/p">>],
     [key |-> <<"PWD">>, val |-> <<"/plugpwd">>],
     [key |-> <<"DEVBOX_SHELL_ENABLED">>, val |-> <<"0">>]}

\* variables devbox.json can declare
ConfigEntries ==
    {[key |-> <<"FOO">>, val |-> <<"$", "{", "BAR", "}">>],
     [key |-> <<"BAR">>, val |-> <<"$", "FOO">>],
     [key |-> <<"PATH">>, val |-> <<"$", "FOO">>],
     [key |-> <<"DIR">>, val |-> <<"$", "PWD">>],
     [key |-> <<"__ETC_PROFILE_NIX_SOURCED">>, val |-> <<"0">>]}

Keys(entries) == { e.key : e \in entries }

\* the sets of at most n entries with distinct keys
KeyedSubsets(entries, n) ==
    { S \in SUBSET entries :
        Cardinality(S) <= n /\ Cardinality(Keys(S)) = Cardinality(S) }

\* the map a set of entries with distinct keys stands for
AsMap(S) == [k \in Keys(S) |-> (CHOOSE e \in S : e.key = k).val]

InitEnv ==
    /\ disk = <<>>
    /\ cfg = <<>>
    /\ last = Idle
    /\ shell = ShellIdle
    /\ comp = CompIdle
    /\ files = NoFiles
    /\ mat = MatIdle
    /\ rc = RcIdle
    /\ conc = NoCalls /\ run = RunIdle

Compose ==
    /\ comp = CompIdle
    /\ \E currentEnv \in SeqsUpTo(AmbientEntries, MaxEntries) :
       \E dev \in KeyedSubsets(DevEnvEntries, MaxEntries - Len(currentEnv)) :
       \E plug \in KeyedSubsets(PluginEntries,
                                MaxEntries - Len(currentEnv) - Cardinality(dev)) :
       \E conf \in KeyedSubsets(ConfigEntries,
                                MaxEntries - Len(currentEnv) - Cardinality(dev)
                                    - Cardinality(plug)) :
       \E devOk \in BOOLEAN, plugOk \in BOOLEAN, envConfig \in BOOLEAN :
          LET in == [currentEnv |-> currentEnv,
                     devEnv     |-> [ok |-> devOk, Variables |-> AsMap(dev)],
                     pluginEnv  |-> [ok |-> plugOk, env |-> AsMap(plug)],
                     cfgEnv     |-> AsMap(conf),
                     EnvConfig  |-> envConfig,
                     projectDir |-> ProjectDir]
          IN  comp' = [op |-> "computeNixEnv", in |-> in, out |-> computeNixEnv(in),
                       afterBuild |-> AfterBuildLayer(in)]
    /\ UNCHANGED <<cfg, disk, last, shell, files, mat, rc, conc, run>>

\* the caller has taken the composed environment
Composed ==
    /\ comp # CompIdle
    /\ comp' = CompIdle
    /\ UNCHANGED <<cfg, disk, last, shell, files, mat, rc, conc, run>>

NextEnv == Compose \/ Composed

SpecEnv == InitEnv /\ [][NextEnv]_vars

----------------------------------------------------------------------------
(* The script materializer as a process: runs of writeScriptsToFiles on    *)
(* one scripts directory, a run being possibly repeated with the same      *)
(* hooks and scripts.                                                      *)

\* entries the directory can hold before the first run
StaleEntries ==
    {[name |-> <<"sub">>,
      val  |-> [kind |-> "dir", mode |-> "0755", body |-> <<>>]],
     [name |-> <<"b", ".sh">>,
      val  |-> [kind |-> "file", mode |-> "0755", body |-> <<"stale">>]]}

\* Config.Shell.InitHook and the result of plugin.InitHooks
HookInputs ==
    {[initHook |-> <<>>, pluginHooks |-> <<>>],
     [initHook |-> <<"echo hi">>, pluginHooks |-> <<<<"echo plug">>>>]}

ScriptNames == {"a", "b"}

\* the bodies a script can be declared with
ScriptBodies(name) ==
    IF name = "a" THEN {<<"echo 1">>} ELSE {<<"echo 2">>}

\* Config.Shell.Scripts: the declared scripts, name -> body
ScriptDecls ==
    UNION { { s \in [names -> {<<"echo 1">>, <<"echo 2">>}] :
                \A n \in names : s[n] \in ScriptBodies(n) } :
            names \in SUBSET ScriptNames }

\* declarations of scripts named like the hooks artifact and like the
\* artifact of arbitrary commands
ReservedDecls ==
    {[n \in {hooksFilename} |-> <<"echo 1">>],
     [n \in {arbitraryCmdFilename} |-> <<"echo 1">>]}

\* the orders in which a range over the map can visit its keys
Orders(names) ==
    { o \in SeqsUpTo(names, Cardinality(names)) :
        Len(o) = Cardinality(names) /\ Range(o) = names }

\* a deletion of the run failed
RemoveFailed(dir, scripts, fails) ==
    \E f \in DOMAIN dir :
        /\ f \notin Written(scripts)
        /\ dir[f].kind # "dir"
        /\ FailsAt(fails, "os.Remove", f)

InitScripts ==
    /\ disk = <<>>
    /\ cfg = <<>>
    /\ last = Idle
    /\ shell = ShellIdle
    /\ comp = CompIdle
    /\ files \in { [f \in { e.name : e \in S } |-> (CHOOSE e \in S : e.name = f).val] :
                     S \in SUBSET StaleEntries }
    /\ mat = MatIdle
    /\ rc = RcIdle
    /\ conc = NoCalls /\ run = RunIdle

\* a run of writeScriptsToFiles
Materialize ==
    /\ mat = MatIdle
    /\ \E hooks \in HookInputs, scripts \in ScriptDecls :
       \E order \in Orders(DOMAIN scripts),
          fails \in FailOne(MatSites(files, ProjectDir, hooks.initHook,
                                      hooks.pluginHooks, scripts)) :
          LET r == writeScriptsToFiles(files, ProjectDir, hooks.initHook,
                                       hooks.pluginHooks, scripts, order, fails)
          IN  /\ files' = r.files
              /\ mat' = [op |-> "run", initHook |-> hooks.initHook,
                         pluginHooks |-> hooks.pluginHooks, scripts |-> scripts,
                         pre |-> files, err |-> r.err,
                         removeFailed |-> r.err = NoErr
                                          /\ RemoveFailed(files, scripts, fails)]
    /\ UNCHANGED <<cfg, disk, last, shell, comp, rc, conc, run>>

\* a run of writeScriptsToFiles, every system call succeeding, for a project
\* that declares a script under a reserved name
MaterializeReserved ==
    /\ mat = MatIdle
    /\ \E hooks \in HookInputs, scripts \in ReservedDecls :
       \E order \in Orders(DOMAIN scripts) :
          LET r == writeScriptsToFiles(files, ProjectDir, hooks.initHook,
                                       hooks.pluginHooks, scripts, order, {})
          IN  /\ files' = r.files
              /\ mat' = [op |-> "reserved", initHook |-> hooks.initHook,
                         pluginHooks |-> hooks.pluginHooks, scripts |-> scripts,
                         pre |-> files, err |-> r.err,
                         removeFailed |-> FALSE]
    /\ UNCHANGED <<cfg, disk, last, shell, comp, rc, conc, run>>

\* the next run, with the hooks and the scripts of the run before
MaterializeAgain ==
    /\ mat # MatIdle /\ mat.op = "run"
    /\ \E order \in Orders(DOMAIN mat.scripts),
          fails \in FailOne(MatSites(files, ProjectDir, mat.initHook,
                                      mat.pluginHooks, mat.scripts)) :
          LET r == writeScriptsToFiles(files, ProjectDir, mat.initHook,
                                       mat.pluginHooks, mat.scripts, order, fails)
          IN  /\ files' = r.files
              /\ mat' = [op |-> "rerun", initHook |-> mat.initHook,
                         pluginHooks |-> mat.pluginHooks, scripts |-> mat.scripts,
                         pre |-> files, err |-> r.err,
                         removeFailed |-> r.err = NoErr
                                          /\ RemoveFailed(files, mat.scripts, fails),
                         first |-> [err |-> mat.err,
                                    removeFailed |-> mat.removeFailed]]
    /\ UNCHANGED <<cfg, disk, last, shell, comp, rc, conc, run>>

\* the caller of the run has returned
MatDone ==
    /\ mat # MatIdle
    /\ mat' = MatIdle
    /\ UNCHANGED <<cfg, disk, last, shell, comp, files, rc, conc, run>>

NextScripts == Materialize \/ MaterializeReserved \/ MaterializeAgain \/ MatDone

SpecScripts == InitScripts /\ [][NextScripts]_vars

----------------------------------------------------------------------------
(* Renderings of the init text of an interactive shell.                    *)

\* Config.Shell.InitHook and the result of plugin.InitHooks of a shell
RcHooks ==
    {[initHook |-> i, pluginHooks |-> p] :
        i \in {<<>>, <<"echo hi">>},
        p \in {<<>>, <<<<"echo plug">>>>, <<<<"echo p1">>, <<"echo p2">>>>}}

\* the other fields of the template's data
RcOptions ==
    [OriginalInitPath : {<<>>, <<"/home/u/.bashrc">>},
     ExportEnv        : {<<>>, <<"export FOO=\"a\";">>},
     PathPrepend      : {<<"/proj/.devbox/nix/profile/default/bin">>},
     HistoryFile      : {<<>>, <<"/proj/.devbox/shell_history">>},
     ShellStartTime   : {<<>>, <<"1700000000">>},
     ProjectDir       : {ProjectDir},
     ScriptCommand    : {<<>>, <<"build">>}]

InitRc ==
    /\ disk = <<>>
    /\ cfg = <<>>
    /\ last = Idle
    /\ shell = ShellIdle
    /\ comp = CompIdle
    /\ files = NoFiles
    /\ mat = MatIdle
    /\ rc = RcIdle
    /\ conc = NoCalls /\ run = RunIdle

\* the shell writes its init text
Render ==
    /\ rc = RcIdle
    /\ \E hooks \in RcHooks, o \in RcOptions :
          LET h == ShellHooks(hooks.initHook, hooks.pluginHooks)
              d == [OriginalInitPath |-> o.OriginalInitPath,
                    ExportEnv        |-> o.ExportEnv,
                    PathPrepend      |-> o.PathPrepend,
                    HistoryFile      |-> o.HistoryFile,
                    ShellStartTime   |-> o.ShellStartTime,
                    ProjectDir       |-> o.ProjectDir,
                    PluginInitHook   |-> h.PluginInitHook,
                    UserHook         |-> h.UserHook,
                    ScriptCommand    |-> o.ScriptCommand]
          IN  rc' = [op |-> "render", initHook |-> hooks.initHook,
                     pluginHooks |-> hooks.pluginHooks, data |-> d,
                     text |-> shellrcTmpl(d)]
    /\ UNCHANGED <<cfg, disk, last, shell, comp, files, mat, conc, run>>

\* the shell has started
Rendered ==
    /\ rc # RcIdle
    /\ rc' = RcIdle
    /\ UNCHANGED <<cfg, disk, last, shell, comp, files, mat, conc, run>>

NextRc == Render \/ Rendered

SpecRc == InitRc /\ [][NextRc]_vars

----------------------------------------------------------------------------
(* Invocations on one project that the caller does not serialize.  Each    *)
(* invocation opens the project (Open reads devbox.json into its own       *)
(* Devbox value), changes its copy of the intent and persists it (Add,     *)
(* Remove), syncs the profile and returns; an invocation that only syncs   *)
(* (Shell, Exec) persists nothing.  Every external step succeeds.  The     *)
(* steps of different invocations interleave freely: the code takes no     *)
(* lock.                                                                   *)

\* the number of invocations of a run
MaxCalls == 3

\* the requests of an invocation
ConcCalls ==
    {[op |-> "Ensure", pkgs |-> <<>>]}
    \cup {[op |-> o, pkgs |-> <<x>>] : o \in {"Add", "Remove"}, x \in KnownPkgs}

\* an Add or Remove that reads devbox.json again before it changes the
\* intent
MutatedIntentOfPersisted(own, persisted, op, pkgs) ==
    IF op = "Add" THEN AppendNew(persisted, pkgs)
    ELSE IF op = "Remove" THEN loDifference(persisted, pkgs).left
    ELSE persisted

\* d.cfg.RawPackages as Add or Remove has changed it when it calls saveCfg:
\* computed from the invocation's own copy, whatever devbox.json holds
MutatedIntent(own, persisted, op, pkgs) ==
    IF op = "Add" THEN AppendNew(own, pkgs)
    ELSE IF op = "Remove" THEN loDifference(own, pkgs).left
    ELSE own

InitConc ==
    /\ disk \in { s \in Intents : Range(s) \subseteq KnownPkgs }
    /\ cfg = disk
    /\ last = Idle
    /\ shell = ShellIdle
    /\ comp = CompIdle
    /\ files = NoFiles
    /\ mat = MatIdle
    /\ rc = RcIdle
    /\ conc = [NoCalls EXCEPT !.start = disk]
    /\ run = RunIdle

\* an invocation starts: devbox.Open loads devbox.json
ConcOpen ==
    \E p \in Procs, c \in ConcCalls :
        /\ conc.inv[p].pc = "idle"
        /\ Len(conc.log) < MaxCalls
        /\ conc' = [conc EXCEPT
                      !.inv[p] = [pc |-> "open", op |-> c.op, pkgs |-> c.pkgs,
                                  cfg |-> disk, loaded |-> disk, wrote |-> <<>>],
                      !.log = Append(@, c),
                      !.serial = @ /\ \A q \in Procs : conc.inv[q].pc = "idle"]
        /\ UNCHANGED <<cfg, disk, last, shell, comp, files, mat, rc, run>>

\* Add or Remove changes its copy of the intent and persists it
ConcPersist ==
    \E p \in Procs :
        /\ conc.inv[p].pc = "open"
        /\ conc.inv[p].op \in {"Add", "Remove"}
        /\ LET new == MutatedIntent(conc.inv[p].cfg, disk, conc.inv[p].op,
                                    conc.inv[p].pkgs)
               r == saveCfg(Call(new, disk), "saveCfg", {})
           IN  /\ disk' = r.disk
               /\ conc' = [conc EXCEPT !.inv[p].pc = "saved",
                                       !.inv[p].cfg = r.cfg,
                                       !.inv[p].wrote = r.disk]
        /\ UNCHANGED <<cfg, last, shell, comp, files, mat, rc, run>>

\* the invocation enters ensurePackagesAreInstalled
ConcSync ==
    \E p \in Procs :
        /\ \/ conc.inv[p].pc = "saved"
           \/ conc.inv[p].pc = "open" /\ conc.inv[p].op = "Ensure"
        /\ conc' = [conc EXCEPT !.inv[p].pc = "sync"]
        /\ UNCHANGED <<cfg, disk, last, shell, comp, files, mat, rc, run>>

\* the sync is done and the invocation returns
ConcReturn ==
    \E p \in Procs :
        /\ conc.inv[p].pc = "sync"
        /\ conc' = [conc EXCEPT !.inv[p] = NotRunning]
        /\ UNCHANGED <<cfg, disk, last, shell, comp, files, mat, rc, run>>

NextConc == ConcOpen \/ ConcPersist \/ ConcSync \/ ConcReturn

SpecConc == InitConc /\ [][NextConc]_vars

----------------------------------------------------------------------------
(* One-shot executions, one after another, on the scripts directory of one *)
(* project.                                                                *)

\* the scripts devbox.json declares when an execution starts
RunDecls ==
    {[n \in {"a"} |-> <<"echo 1">>],
     [n \in {"a", "b"} |-> <<"echo 1">>],
     [n \in {arbitraryCmdFilename} |-> <<"echo 1">>]}

\* the commands of an execution: "a" is a script where declared, "echo" is
\* a program
RunCmds == {"a", "echo"}

\* the steps of an execution that can fail
RunSites(dir, projectDir, initHook, pluginHooks, scripts) ==
    MatSites(dir, projectDir, initHook, pluginHooks, scripts)
    \cup CmdSites(projectDir)
    \cup { Failure(s, <<>>) :
             s \in {"ensurePackagesAreInstalled", "computeNixEnv",
                    "nix.RunScript", "profilePath", "plugin.Env",
                    "nix.NewDevboxShell", "shell.Run"} }

InitRuns ==
    /\ disk = <<>>
    /\ cfg = <<>>
    /\ last = Idle
    /\ shell = ShellIdle
    /\ comp = CompIdle
    /\ files = NoFiles
    /\ mat = MatIdle
    /\ rc = RcIdle
    /\ conc = NoCalls
    /\ run = RunIdle

\* the execution reaches writeScriptsToFiles and the pass runs to the end
\* of its clean-up loop
PassCleaned(dir, scripts, order, fails) ==
    /\ ~FailsAt(fails, "ensurePackagesAreInstalled", <<>>)
    /\ writeScriptsToFiles(dir, ProjectDir, <<"echo hi">>, <<>>, scripts,
                           order, fails).err = NoErr

\* `devbox run <cmd>`; a deletion of the run has failed only if the run
\* took the unified path and its materializer pass got to its clean-up loop
OneShot ==
    /\ run = RunIdle
    /\ \E scripts \in RunDecls, cmdName \in RunCmds, unified \in BOOLEAN :
       \E order \in Orders(DOMAIN scripts),
          fails \in FailOne(RunSites(files, ProjectDir, <<"echo hi">>, <<>>, scripts)) :
          LET r == RunScriptFiles(files, ProjectDir, <<"echo hi">>, <<>>, scripts,
                                  order, cmdName, unified, fails)
          IN  /\ files' = r.files
              /\ run' = [op |-> "RunScript", cmdName |-> cmdName,
                         scripts |-> scripts, UnifiedEnv |-> unified,
                         pre |-> files, err |-> r.err,
                         removeFailed |-> unified /\ PassCleaned(files, scripts, order, fails)
                                          /\ RemoveFailed(files, scripts, fails)]
    /\ UNCHANGED <<cfg, disk, last, shell, comp, mat, rc, conc>>

\* the execution is over
OneShotDone ==
    /\ run # RunIdle
    /\ run' = RunIdle
    /\ UNCHANGED <<cfg, disk, last, shell, comp, files, mat, rc, conc>>

NextRuns == OneShot \/ OneShotDone

SpecRuns == InitRuns /\ [][NextRuns]_vars

----------------------------------------------------------------------------
(* Properties of the package-intent state machine (specification Spec).    *)
(* `last` holds the call that has just returned: its arguments, the intent *)
(* in memory and in devbox.json as the call found them, its error and its  *)
(* trace.                                                                  *)

SyncEvents == {"generateShellFiles", "addPackagesToProfile", "installNixProfile",
               "RemoveInvalidSymlinks"}

PersistEvents == {"saveCfg", "rollbackSaveCfg"}

\* some step of the sync failed in the last call
SyncFailed == \E i \in DOMAIN last.trace :
                 last.trace[i].ev \in SyncEvents /\ ~last.trace[i].ok

\* the last call performed step ev, and it succeeded
Succeeded(ev) == \E i \in DOMAIN last.trace :
                    last.trace[i].ev = ev /\ last.trace[i].ok

\* the last call performed step ev
Performed(ev) == \E i \in DOMAIN last.trace : last.trace[i].ev = ev

AllValid(pkgs) == \A i \in DOMAIN pkgs : PkgExists(pkgs[i])

\* index of the first occurrence of x in list
FirstIndex(list, x) == CHOOSE i \in DOMAIN list :
                          list[i] = x /\ \A j \in 1..(i - 1) : list[j] # x

\* P followed by the identifiers of pkgs that P lacks, each once, in the
\* order of their first occurrence in pkgs
WithNew(P, pkgs) ==
    CHOOSE r \in SeqsUpTo(PkgIds, Len(P) + Len(pkgs)) :
        /\ Len(r) >= Len(P)
        /\ SubSeq(r, 1, Len(P)) = P
        /\ { r[i] : i \in (Len(P) + 1)..Len(r) } = Range(pkgs) \ Range(P)
        /\ \A i, j \in (Len(P) + 1)..Len(r) :
              i < j => FirstIndex(pkgs, r[i]) < FirstIndex(pkgs, r[j])

\* P without the identifiers of R, the rest in P's order
Without(P, R) == SelectSeq(P, LAMBDA x : ~Contains(R, x))

\* C1 (as claimed): whenever Add's identifiers all validate and its sync
\* fails, Add returns an error and both the in-memory intent and the
\* persisted intent equal the pre-Add intent P exactly.
C1_RollbackAlwaysRestoresBoth ==
    (last.op = "Add" /\ AllValid(last.pkgs) /\ SyncFailed)
        => /\ last.err # NoErr
           /\ cfg = last.preCfg
           /\ disk = last.preCfg

\* C1 witness of the divergence: P = <<"x">>, Add("y") whose sync fails and
\* whose rollback persist fails as well returns the sync's error and nothing
\* of the failed persist, with <<"x">> in memory and <<"x", "y">>, which
\* the failed write did not replace, in devbox.json.
C1_Witness ==
    /\ last.op = "Add" /\ last.pkgs = <<"y">> /\ last.preCfg = <<"x">>
    /\ last.preDisk = <<"x">>
    /\ SyncFailed
    /\ Performed("rollbackSaveCfg") /\ ~Succeeded("rollbackSaveCfg")
    /\ last.err \in {"generateShellFiles", "apply Nix derivation",
                     "addPackagesToProfile", "RemoveInvalidSymlinks"}
    /\ cfg = <<"x">> /\ disk = <<"x", "y">>

\* C2: whenever the sync step of Remove(pkgs) fails, the persisted intent is
\* the pre-Remove intent P without the requested packages, the sync's error
\* is returned, and nothing restores the removed packages (no second persist).
C2_RemoveKeepsRemovalOnSyncFailure ==
    (last.op = "Remove" /\ SyncFailed)
        => /\ disk = Without(last.preCfg, last.pkgs)
           /\ cfg = Without(last.preCfg, last.pkgs)
           /\ last.err \in {"generateShellFiles", "apply Nix derivation",
                            "addPackagesToProfile", "RemoveInvalidSymlinks"}
           /\ ~Performed("rollbackSaveCfg")

\* C2 witness: P = <<"x","y">>, Remove("y") with a failing sync leaves <<"x">>.
C2_Witness ==
    /\ last.op = "Remove" /\ last.pkgs = <<"y">> /\ last.preCfg = <<"x", "y">>
    /\ SyncFailed /\ disk = <<"x">> /\ last.err # NoErr

\* C3: if the resolver rejects any identifier of pkgs, Add returns the
\* validation error, the in-memory intent and the persisted config are
\* unchanged, and no persist and no sync step is performed.
C3_AddValidatesBeforeMutating ==
    (last.op = "Add" /\ ~AllValid(last.pkgs))
        => /\ last.err = "ErrPackageNotFound"
           /\ cfg = last.preCfg
           /\ disk = last.preDisk
           /\ \A i \in DOMAIN last.trace :
                 last.trace[i].ev \notin (PersistEvents \cup SyncEvents)

\* C3 witness: Add("x", "z") on an intent without "x", where "x" is valid
\* and "z" is rejected: nothing is declared.
C3_Witness ==
    /\ last.op = "Add" /\ last.pkgs = <<"x", "z">>
    /\ ~Contains(last.preCfg, "x")
    /\ last.err = "ErrPackageNotFound"
    /\ cfg = last.preCfg

\* C4 (as claimed): for a freshly opened Devbox value, whenever Add returns
\* an error the persisted intent is the pre-Add value, and whenever it
\* succeeds the persisted intent is the pre-Add value with the new
\* identifiers appended.
C4_NoErrorLeavesPackagesPersisted ==
    (last.op = "Add" /\ last.preCfg = last.preDisk)
        => IF last.err # NoErr
           THEN disk = last.preDisk
           ELSE disk = WithNew(last.preDisk, last.pkgs)

\* every write of devbox.json the last call attempted returned no error
PersistsSucceeded ==
    \A i \in DOMAIN last.trace :
        last.trace[i].ev \in PersistEvents => last.trace[i].ok

\* C4 (amended): an Add that fails in validation writes nothing, so the
\* persisted intent is unchanged; when Add returns and every write of
\* devbox.json it attempted succeeded, the persisted intent is the pre-Add
\* in-memory intent if the sync failed (an error is returned), and otherwise
\* the pre-Add in-memory intent with all new non-duplicate identifiers
\* appended: when Add succeeds, but also when Add returns an error from
\* readme printing or from the update message.
C4_PersistedIntentAfterAdd ==
    last.op = "Add"
        => /\ ~AllValid(last.pkgs)
                 => /\ disk = last.preDisk
                    /\ \A ev \in PersistEvents : ~Performed(ev)
           /\ (AllValid(last.pkgs) /\ PersistsSucceeded)
                 => IF SyncFailed
                    THEN disk = last.preCfg /\ last.err # NoErr
                    ELSE disk = WithNew(last.preCfg, last.pkgs)
           /\ last.err \in {NoErr, "PrintReadme", "PrintEnvUpdateMessage"}
                 => disk = WithNew(last.preCfg, last.pkgs)

\* C4 witness: Add("y") on <<"x">> installs, then fails printing the readme:
\* an error is returned and <<"x","y">> stays persisted.
C4_Witness ==
    /\ last.op = "Add" /\ last.pkgs = <<"y">>
    /\ last.preCfg = <<"x">> /\ last.preDisk = <<"x">>
    /\ last.err = "PrintReadme"
    /\ disk = <<"x", "y">>

\* C5: starting from a duplicate-free intent, after every Add and Remove
\* (successful, failed or rolled back) the intent, in memory and persisted,
\* has no duplicate; the identifiers declared before a call that remain
\* after it keep their relative order; Add leaves the intent as it was or
\* appends the new identifiers at the end, each once, in argument order;
\* Remove adds nothing.
C5_IntentInvariant ==
    /\ NoDup(cfg)
    /\ NoDup(disk)
    /\ last.op \in {"Add", "Remove"}
          => Filter(last.preCfg, Range(cfg)) = Filter(cfg, Range(last.preCfg))
    /\ last.op = "Add"
          => cfg \in {last.preCfg, WithNew(last.preCfg, last.pkgs)}
    /\ last.op = "Remove"
          => Range(cfg) \subseteq Range(last.preCfg)

\* C5 witness: Add("y", "y") on <<"z","x">> succeeds and declares "y" once,
\* at the end.
C5_Witness ==
    /\ last.op = "Add" /\ last.pkgs = <<"y", "y">>
    /\ last.preCfg = <<"z", "x">>
    /\ last.err = NoErr
    /\ cfg = <<"z", "x", "y">> /\ disk = <<"z", "x", "y">>

\* C6: a call that syncs in ensure mode (Shell, Exec and through it RunScript
\* and the legacy paths) leaves the in-memory intent and the persisted config
\* as it found them and performs no persist, whether the sync succeeds or
\* fails (specification SpecExec).
C6_EnsureLeavesIntentUntouched ==
    last.op \in {"Shell", "Exec", "RunScript"}
        => /\ cfg = last.preCfg
           /\ disk = last.preDisk
           /\ \A i \in DOMAIN last.trace : last.trace[i].ev \notin PersistEvents

\* C6 witness: Shell on a Devbox value whose in-memory intent differs from
\* devbox.json, with the sync failing in its profile step.
C6_Witness ==
    /\ last.op = "Shell"
    /\ last.preCfg # last.preDisk
    /\ Performed("generateShellFiles")
    /\ SyncFailed
    /\ cfg = last.preCfg /\ disk = last.preDisk

----------------------------------------------------------------------------
(* Properties of the shell command (specification SpecShell).  `shell`     *)
(* holds the request that has just returned.                               *)

\* the steps a request performs before it looks at the marker
BeforeGuard == {"parseShellArgs", "devbox.Open"}

\* the request got as far as an opened project
Opened == \E i \in DOMAIN shell.trace :
             shell.trace[i].ev = "devbox.Open" /\ shell.trace[i].ok

\* C7 (as claimed): whenever the marker is present in the ambient environment
\* of a shell request (whatever its value, whatever the invocation form),
\* the request fails with the already-in-session error and has performed
\* nothing beyond opening the project.
C7_AnyMarkerAnyFormRefused ==
    (shell.op = "shell" /\ shell.marker.set /\ Opened)
        => /\ shell.err = AlreadyInSession
           /\ \A i \in DOMAIN shell.trace : shell.trace[i].ev \in BeforeGuard

\* C7 (amended): a shell request that has opened its project fails with the
\* already-in-session error exactly when --print-env is not given and the
\* marker's value is one strconv.ParseBool reads as true (1, t, T, TRUE,
\* true, True); it then does so in interactive and in one-shot mode alike,
\* having performed nothing beyond opening the project.
C7_InceptionGuard ==
    (shell.op = "shell" /\ Opened)
        => /\ (shell.err = AlreadyInSession)
                <=> (~shell.printEnv /\ Getenv(shell.marker) \in ParseBoolTrue)
           /\ shell.err = AlreadyInSession
                => \A i \in DOMAIN shell.trace : shell.trace[i].ev \in BeforeGuard

\* C7 witness: `devbox shell -- echo` with DEVBOX_SHELL_ENABLED=true is
\* refused right after the project is opened.
C7_Witness ==
    /\ shell.op = "shell"
    /\ shell.marker = [set |-> TRUE, value |-> "true"]
    /\ shell.cmds = <<"echo">>
    /\ ~shell.printEnv
    /\ shell.err = AlreadyInSession
    /\ Steps(shell.trace) = <<"parseShellArgs", "devbox.Open">>

----------------------------------------------------------------------------
(* Properties of the composition (specification SpecEnv).  `comp` holds    *)
(* the composition that has just returned: its inputs `in`, its result     *)
(* `out`.                                                                  *)

\* the composition returned a mapping
CompOk == comp.op = "computeNixEnv" /\ ~comp.out.nil

\* the key of an ambient entry
EntryKey(e) == stringsCut(e, "=").before

\* the ambient mapping A: each key bound to the value of its last entry
Ambient(currentEnv) ==
    [k \in { EntryKey(currentEnv[i]) : i \in DOMAIN currentEnv } |->
        LET i == CHOOSE i \in DOMAIN currentEnv :
                    /\ EntryKey(currentEnv[i]) = k
                    /\ \A j \in (i + 1)..Len(currentEnv) : EntryKey(currentEnv[j]) # k
        IN  stringsCut(currentEnv[i], "=").after]

\* A minus the keys of the ambient ignore set
AmbientKept(currentEnv) ==
    LET A == Ambient(currentEnv) IN
    [k \in DOMAIN A \ {<<"PWD">>, <<"OLDPWD">>, <<"SHLVL">>, <<"SHELL">>} |-> A[k]]

\* the build, plugin and config layers of the composition are empty
AmbientOnly ==
    /\ comp.in.devEnv.Variables = EmptyMap
    /\ comp.in.pluginEnv.env = EmptyMap
    /\ comp.in.cfgEnv = EmptyMap

SyntheticFlags == {<<"__ETC_PROFILE_NIX_SOURCED">>, <<"DEVBOX_SHELL_ENABLED">>}

\* the plugin virtual-environment binary directory of the project
VirtenvDir == <<"/proj", "/", ".devbox/virtenv/bin">>

\* C8 (as claimed): composing an ambient mapping A with empty build, plugin
\* and config layers yields exactly A minus the ambient ignore set, PATH
\* included.
C8_AmbientOnlyIsExactlyAmbient ==
    (CompOk /\ AmbientOnly) => comp.out.env = AmbientKept(comp.in.currentEnv)

\* C8 (amended): composing an ambient mapping A with empty build, plugin and
\* config layers yields A minus the ambient ignore set, except that the two
\* synthetic flags are bound to "1" and PATH is bound to the path-list join
\* of the plugin virtual-environment directory, the ambient PATH and the
\* ambient PATH again; no other key is added, removed or changed.
C8_AmbientOnlyComposition ==
    (CompOk /\ AmbientOnly)
        => LET A == AmbientKept(comp.in.currentEnv)
               env == comp.out.env
           IN  /\ DOMAIN env = DOMAIN A \cup SyntheticFlags \cup {<<"PATH">>}
               /\ \A k \in DOMAIN A \ (SyntheticFlags \cup {<<"PATH">>}) :
                      env[k] = A[k]
               /\ \A k \in SyntheticFlags : env[k] = <<"1">>
               /\ env[<<"PATH">>] =
                      JoinPathLists(pluginVirtenvPath(comp.in.projectDir),
                                    Get(A, <<"PATH">>), Get(A, <<"PATH">>))

\* C8 witness: the ambient environment PATH=/c, PWD=/old composed alone.
C8_Witness ==
    /\ CompOk /\ AmbientOnly
    /\ comp.in.currentEnv = <<<<"PATH", "=", "/c">>, <<"PWD", "=", "/old">>>>
    /\ <<"PWD">> \notin DOMAIN comp.out.env
    /\ comp.out.env[<<"PATH">>] = VirtenvDir \o <<":", "/c", ":", "/c">>

\* the keys both the plugins and the build environment define
PluginAndBuildKeys ==
    DOMAIN comp.in.pluginEnv.env \cap DOMAIN comp.in.devEnv.Variables

\* C9 (as claimed): every key that the plugins and the build environment both
\* define has the plugin's value in the composed mapping, whatever the key
\* and whatever the other layers hold.
C9_PluginValueForEveryKey ==
    CompOk => \A k \in PluginAndBuildKeys :
                 comp.out.env[k] = comp.in.pluginEnv.env[k]

\* C9 (amended): every key other than PATH that the plugins and the build
\* environment both define, and that the project configuration (when
\* enabled) does not declare, has the plugin's value in the composed
\* mapping, whatever the ambient layer holds.
C9_PluginOverBuild ==
    CompOk => \A k \in PluginAndBuildKeys :
                 (/\ k # <<"PATH">>
                  /\ ~(comp.in.EnvConfig /\ k \in DOMAIN comp.in.cfgEnv))
                     => comp.out.env[k] = comp.in.pluginEnv.env[k]

\* C9 witness: FOO exported by the build as "built" and contributed by a
\* plugin as "plug", with an ambient FOO as well.
C9_Witness ==
    /\ CompOk
    /\ <<"FOO">> \in PluginAndBuildKeys
    /\ comp.in.devEnv.Variables[<<"FOO">>] =
           [Type |-> "exported", Value |-> <<"built">>]
    /\ comp.in.currentEnv = <<<<"FOO", "=", "a", "=", "b">>>>
    /\ comp.out.env[<<"FOO">>] = <<"plug">>

\* ambientPath: the ambient PATH
AmbientPath == Get(AmbientKept(comp.in.currentEnv), <<"PATH">>)

\* builtPath: the PATH after the build layer, the build's exported PATH if
\* it has one and the ambient PATH otherwise
BuiltPath ==
    LET built == comp.in.devEnv.Variables IN
    IF <<"PATH">> \in DOMAIN built /\ built[<<"PATH">>].Type = "exported"
    THEN built[<<"PATH">>].Value
    ELSE AmbientPath

\* C10: the composed PATH is the plugin virtual-environment directory, then
\* builtPath, then ambientPath, joined with colons, repeated directories
\* kept.
C10_PathPrecedence ==
    CompOk => comp.out.env[<<"PATH">>] =
                  VirtenvDir \o <<":">> \o BuiltPath \o <<":">> \o AmbientPath

\* C10 witness: built PATH "/b" and ambient PATH "/c" give
\* "<virtenv>:/b:/c".
C10_Witness ==
    /\ CompOk
    /\ BuiltPath = <<"/b">> /\ AmbientPath = <<"/c">>
    /\ comp.out.env[<<"PATH">>] = VirtenvDir \o <<":", "/b", ":", "/c">>

----------------------------------------------------------------------------
(* The configuration layer.                                                *)

\* the build entries the build layer merges
BuiltKept ==
    { k \in DOMAIN comp.in.devEnv.Variables :
        /\ comp.in.devEnv.Variables[k].Type = "exported"
        /\ k \notin ignoreDevEnvVar
        /\ ~(k = <<"SSL_CERT_FILE">>
             /\ comp.in.devEnv.Variables[k].Value = <<"/no-cert-file.crt">>) }

\* the mapping assembled before the configuration layer: the plugins'
\* value, else a synthetic flag, else the build's merged value, else the
\* ambient value
PreConfig ==
    LET A == AmbientKept(comp.in.currentEnv)
        P == comp.in.pluginEnv.env
    IN  [k \in DOMAIN A \cup BuiltKept \cup SyntheticFlags \cup DOMAIN P |->
            IF k \in DOMAIN P THEN P[k]
            ELSE IF k \in SyntheticFlags THEN <<"1">>
            ELSE IF k \in BuiltKept THEN comp.in.devEnv.Variables[k].Value
            ELSE A[k]]

\* the declared value v is a reference to the name n, as $n or ${n}
RefersTo(v, n) == v = <<"$", n>> \/ v = <<"$", "{", n, "}">>

\* the names a declared value can refer to
RefNames == {"FOO", "BAR", "PWD", "DIR", "HOME", "PATH"}

\* what the reference to n stands for in the mapping assembled so far
Referenced(n) == IF <<n>> \in DOMAIN PreConfig THEN PreConfig[<<n>>] ELSE <<>>

\* C11 (as claimed): with the configuration layer enabled, a declared
\* variable whose value is a reference to a name has, in the composed
\* mapping, the name's value in the mapping assembled so far, and the empty
\* string if the name is absent from it.
C11_ReferenceAlwaysSubstituted ==
    (CompOk /\ comp.in.EnvConfig) => \A k \in DOMAIN comp.in.cfgEnv : \A n \in RefNames :
                 RefersTo(comp.in.cfgEnv[k], n)
                     => /\ k \in DOMAIN comp.out.env
                        /\ comp.out.env[k] = Referenced(n)

\* C11 (amended): with the configuration layer enabled, a declared variable
\* other than PATH whose value is a reference to a name other than PWD has,
\* in the composed mapping, the name's value in the mapping assembled so
\* far, and the empty string if the name is absent from it.
C11_ConfigExpansion ==
    (CompOk /\ comp.in.EnvConfig)
        => \A k \in DOMAIN comp.in.cfgEnv \ {<<"PATH">>} :
              \A n \in RefNames \ {"PWD"} :
                 RefersTo(comp.in.cfgEnv[k], n)
                     => /\ k \in DOMAIN comp.out.env
                        /\ comp.out.env[k] = Referenced(n)

\* C11 witness: FOO=${BAR} declared with BAR=baz contributed by a plugin
\* gives FOO=baz.
C11_Witness ==
    /\ CompOk /\ comp.in.EnvConfig
    /\ comp.in.cfgEnv = [k \in {<<"FOO">>} |-> <<"$", "{", "BAR", "}">>]
    /\ Referenced("BAR") = <<"baz">>
    /\ comp.out.env[<<"FOO">>] = <<"baz">>

\* C11 witness of the absent name: FOO=${BAR} declared with no BAR in the
\* mapping gives the empty FOO.
C11_WitnessAbsent ==
    /\ CompOk /\ comp.in.EnvConfig
    /\ comp.in.cfgEnv = [k \in {<<"FOO">>} |-> <<"$", "{", "BAR", "}">>]
    /\ <<"BAR">> \notin DOMAIN PreConfig
    /\ comp.out.env[<<"FOO">>] = <<>>

----------------------------------------------------------------------------
(* Properties of the script materializer (specification SpecScripts).      *)
(* `mat` holds the run that has just returned: its hooks and scripts, the  *)
(* directory `pre` it started from, its error; after a repeated run also   *)
(* the error of the run before.                                            *)

\* a run has just returned without an error
RunOk == mat # MatIdle /\ mat.err = NoErr

\* a run and its repetition have both returned without an error
BothRunsOk == RunOk /\ mat.op = "rerun" /\ mat.first.err = NoErr

\* the names of the files, directories apart, in the scripts directory
FileNames(dir) == { f \in DOMAIN dir : dir[f].kind # "dir" }

\* a file is in the directory that the hooks and the scripts do not account
\* for
Residual == FileNames(files) \ Written(mat.scripts) # {}

\* C12 (as claimed): after a run and its repetition with the same hooks and
\* scripts, the directory is as the first run left it, and holds no
\* residual file.
C12_RepeatedRunAlwaysIdentical ==
    BothRunsOk => (files = mat.pre /\ ~Residual)

\* C12 (amended): after a run whose deletions all succeeded and its
\* repetition with the same hooks and scripts, both returning no error, the
\* directory is as the first run left it, names, modes and contents, and
\* holds no residual file.
C12_MaterializerIdempotent ==
    (BothRunsOk /\ ~mat.first.removeFailed) => (files = mat.pre /\ ~Residual)

\* C12 witness: hooks and the scripts a and b written twice, the second run
\* finding the four entries of the first.
C12_Witness ==
    /\ BothRunsOk /\ ~mat.first.removeFailed
    /\ DOMAIN mat.scripts = {"a", "b"}
    /\ mat.initHook = <<"echo hi">>
    /\ DOMAIN mat.pre = {<<".hooks", ".sh">>, <<"a", ".sh">>, <<"b", ".sh">>, <<"sub">>}
    /\ files = mat.pre

\* C13: after a run that returns no error and whose deletions all succeed,
\* the files of the directory are exactly the hooks artifact and one
\* artifact per declared script, each with the body of this run (the hooks
\* artifact when no script is declared under its name), and every file
\* that was there before the run and that the run did not write is gone.
C13_ArtifactSet ==
    (RunOk /\ ~mat.removeFailed)
        => /\ FileNames(files) = Written(mat.scripts)
           /\ hooksFilename \notin DOMAIN mat.scripts
                 => files[scriptFilename(hooksFilename)].body =
                      stringsJoin(<<mat.initHook>> \o mat.pluginHooks, "\n\n")
           /\ \A n \in DOMAIN mat.scripts :
                  files[scriptFilename(n)].body =
                      <<". ", "/proj", "/", ".devbox/gen/scripts", "/",
                        ".hooks", ".sh", "\n\n">> \o mat.scripts[n]
           /\ \A f \in FileNames(mat.pre) \ Written(mat.scripts) :
                  f \notin DOMAIN files

\* C13 witness: the run before wrote {a, b}, this run declares {a}: only
\* hooks and a remain.
C13_Witness ==
    /\ RunOk /\ ~mat.removeFailed
    /\ DOMAIN mat.scripts = {"a"}
    /\ FileNames(mat.pre) = {<<".hooks", ".sh">>, <<"a", ".sh">>, <<"b", ".sh">>}
    /\ mat.pre[<<"b", ".sh">>].body # <<"stale">>
    /\ FileNames(files) = {<<".hooks", ".sh">>, <<"a", ".sh">>}

----------------------------------------------------------------------------
(* Properties of the one-shot path (specification SpecExec).  `last.pkgs`  *)
(* is the command line given to Exec.                                      *)

\* the events ev of the last call
EventsOf(ev) == { i \in DOMAIN last.trace : last.trace[i].ev = ev }

\* the body of the artifact of arbitrary commands
CmdArtifact ==
    <<".cmd", ".sh",
      ". ", "/proj", "/", ".devbox/gen/scripts", "/", ".hooks", ".sh", "\n\n",
      "eval $DEVBOX_RUN_CMD\n">>

\* the command line of the last call, words separated by blanks
CommandText ==
    [i \in 1..(2 * Len(last.pkgs) - 1) |->
        IF i % 2 = 1 THEN last.pkgs[(i + 1) \div 2] ELSE " "]

C14_WitnessScript ==
    /\ last.op = "Exec" /\ last.pkgs = <<"build", "hi">> /\ last.err = NoErr
    /\ \E i \in EventsOf("nix.RunScript") :
          last.trace[i].arg = <<"/proj", "/", ".devbox/gen/scripts", "/",
                                "build", ".sh", " ", "hi">>

----------------------------------------------------------------------------
(* Properties of `devbox shell -- <cmd>` (specification SpecShell).        *)

\* the request carries a trailing command and gets past the inception guard
TrailingCommand ==
    /\ shell.op = "shell" /\ Opened
    /\ ~shell.printEnv
    /\ shell.cmds # <<>>
    /\ Getenv(shell.marker) \notin {"1", "t", "T", "TRUE", "true", "True"}

\* the steps ev of the request
ShellEventsOf(ev) == { i \in DOMAIN shell.trace : shell.trace[i].ev = ev }

\* the request started an interactive shell
Interactive ==
    ShellEventsOf("nix.NewDevboxShell") \cup ShellEventsOf("shell.Run") # {}

\* C15 (as claimed): a shell request with a trailing command never starts
\* an interactive shell, writes the deprecation warning before anything
\* else it does for the command, and runs the command as `run` does.
C15_AlwaysWarnsAndRuns ==
    (TrailingCommand /\ ~shell.marker.set)
        => /\ ~Interactive
           /\ Len(shell.trace) >= 3 /\ shell.trace[3].ev = "warning"
           /\ ShellEventsOf("nix.Exec") = {}
           /\ shell.err = NoErr
                => shell.trace[Len(shell.trace)].ev = "nix.RunScript"

\* C15 (amended): a shell request with a trailing command never starts an
\* interactive shell; with the unified environment enabled it writes the
\* deprecation warning before anything else it does for the command and
\* runs the command as `run` does; with the unified environment disabled
\* it writes no warning and runs the command with nix.Exec.
C15_DeprecatedShellCommand ==
    TrailingCommand
        => /\ ~Interactive
           /\ IF shell.ff.UnifiedEnv
              THEN /\ Len(shell.trace) >= 3 /\ shell.trace[3].ev = "warning"
                   /\ ShellEventsOf("nix.Exec") = {}
                   /\ shell.err = NoErr
                        => shell.trace[Len(shell.trace)].ev = "nix.RunScript"
              ELSE /\ ShellEventsOf("warning") = {}
                   /\ ShellEventsOf("nix.RunScript") = {}
                   /\ shell.err = NoErr
                        => shell.trace[Len(shell.trace)].ev = "nix.Exec"

\* C15 witness: `devbox shell -- echo hi` with the unified environment
\* warns, then runs `echo hi` as an arbitrary command.
C15_Witness ==
    /\ TrailingCommand /\ ~shell.marker.set
    /\ shell.ff.UnifiedEnv
    /\ shell.cmds = <<"echo", "hi">>
    /\ shell.err = NoErr
    /\ shell.trace[3].ev = "warning"
    /\ \E i \in ShellEventsOf("env DEVBOX_RUN_CMD") :
          i > 3 /\ shell.trace[i].arg = <<"echo", " ", "hi">>
    /\ shell.trace[Len(shell.trace)].ev = "nix.RunScript"

----------------------------------------------------------------------------
(* Failures of the composition (specification SpecEnv).                    *)

\* an ambient entry has no separator
MalformedAmbient ==
    \E i \in DOMAIN comp.in.currentEnv :
        \A j \in DOMAIN comp.in.currentEnv[i] : comp.in.currentEnv[i][j] # "="

\* a layer of the composition fails
LayerFails ==
    MalformedAmbient \/ ~comp.in.devEnv.ok \/ ~comp.in.pluginEnv.ok

\* C16: a composition in which a layer fails returns an error and no
\* mapping; a composition in which no layer fails returns a mapping and no
\* error.
C16_AllOrNothing ==
    comp.op = "computeNixEnv"
        => IF LayerFails
           THEN comp.out.nil /\ comp.out.env = EmptyMap /\ comp.out.err # NoErr
           ELSE ~comp.out.nil /\ comp.out.err = NoErr

\* C16 witness: the ambient PATH and the build's FOO are merged, then the
\* plugins fail: no mapping is returned.
C16_Witness ==
    /\ comp.op = "computeNixEnv"
    /\ comp.in.currentEnv = <<<<"PATH", "=", "/c">>>>
    /\ comp.in.devEnv.ok /\ <<"FOO">> \in BuiltKept
    /\ ~comp.in.pluginEnv.ok
    /\ comp.out.nil /\ comp.out.err = "plugin.Env"

----------------------------------------------------------------------------
(* References between declared variables (specification SpecEnv).          *)

\* the declared variable b refers to the declared variable a
DeclaredRef(b, a) ==
    /\ b \in DOMAIN comp.in.cfgEnv /\ <<a>> \in DOMAIN comp.in.cfgEnv
    /\ RefersTo(comp.in.cfgEnv[b], a)

\* the declared variable b refers to PWD
PwdRef(b) == b \in DOMAIN comp.in.cfgEnv /\ RefersTo(comp.in.cfgEnv[b], "PWD")

\* the declared names
DeclNames == {"FOO", "BAR", "PATH", "DIR"}

\* C17 (as claimed): with the configuration layer enabled, a declared
\* variable B that refers to a declared variable A has, in the composed
\* mapping, A's value in the mapping assembled before the layer (the empty
\* string if there is none), and a declared variable that refers to PWD
\* has the project directory.
C17_EveryDeclaredRefPreConfig ==
    (CompOk /\ comp.in.EnvConfig)
        => /\ \A b \in DOMAIN comp.in.cfgEnv : \A a \in DeclNames :
                 DeclaredRef(b, a) => comp.out.env[b] = Referenced(a)
           /\ \A b \in DOMAIN comp.in.cfgEnv :
                 PwdRef(b) => comp.out.env[b] = comp.in.projectDir

\* C17 (amended): with the configuration layer enabled, a declared variable
\* B other than PATH that refers to a declared variable A has, in the
\* composed mapping, A's value in the mapping assembled before the layer
\* (the empty string if there is none), never A's declared value, and a
\* declared variable other than PATH that refers to PWD has the project
\* directory, whatever the mapping binds PWD to.
C17_DeclaredRefsSeePreConfig ==
    (CompOk /\ comp.in.EnvConfig)
        => /\ \A b \in DOMAIN comp.in.cfgEnv \ {<<"PATH">>} : \A a \in DeclNames :
                 DeclaredRef(b, a) => comp.out.env[b] = Referenced(a)
           /\ \A b \in DOMAIN comp.in.cfgEnv \ {<<"PATH">>} :
                 PwdRef(b) => comp.out.env[b] = comp.in.projectDir

\* C17 witness: FOO=${BAR} and BAR=$FOO declared, BAR=baz from a plugin:
\* FOO is baz and BAR is empty.
C17_Witness ==
    /\ CompOk /\ comp.in.EnvConfig
    /\ DeclaredRef(<<"FOO">>, "BAR") /\ DeclaredRef(<<"BAR">>, "FOO")
    /\ comp.in.pluginEnv.env = [k \in {<<"BAR">>} |-> <<"baz">>]
    /\ comp.out.env[<<"FOO">>] = <<"baz">>
    /\ comp.out.env[<<"BAR">>] = <<>>

\* C17 witness of PWD: DIR=$PWD declared while a plugin binds PWD: DIR is
\* the project directory.
C17_WitnessPwd ==
    /\ CompOk /\ comp.in.EnvConfig
    /\ PwdRef(<<"DIR">>)
    /\ Referenced("PWD") = <<"/plugpwd">>
    /\ comp.out.env[<<"DIR">>] = <<"/proj">>

----------------------------------------------------------------------------
(* The build layer (specification SpecEnv).  `comp.afterBuild` is the      *)
(* mapping the composition held once the build layer was merged.           *)

\* the composition got past the build layer
BuildMerged ==
    comp.op = "computeNixEnv" /\ ~MalformedAmbient /\ comp.in.devEnv.ok

\* the names of the build ignore set
BuildIgnored ==
    {<<"BASHOPTS">>, <<"HOME">>, <<"NIX_BUILD_TOP">>, <<"NIX_ENFORCE_PURITY">>,
     <<"NIX_LOG_FD">>, <<"NIX_REMOTE">>, <<"PPID">>, <<"SHELL">>, <<"SHELLOPTS">>,
     <<"TEMP">>, <<"TEMPDIR">>, <<"TERM">>, <<"TMP">>, <<"TMPDIR">>, <<"TZ">>,
     <<"UID">>}

\* after the build layer, key k is as the ambient layer left it
AsAmbientLeft(k) ==
    LET A == AmbientKept(comp.in.currentEnv) IN
    IF k \in DOMAIN A
    THEN k \in DOMAIN comp.afterBuild /\ comp.afterBuild[k] = A[k]
    ELSE k \notin DOMAIN comp.afterBuild

\* C18: after the build layer, a key of the build ignore set, and a key
\* whose build entry is not of kind exported, is as the ambient layer left
\* it; so is every key the build does not define.
C18_BuildLayerFiltering ==
    BuildMerged
        => /\ \A k \in DOMAIN comp.in.devEnv.Variables :
                 (k \in BuildIgnored
                    \/ comp.in.devEnv.Variables[k].Type # "exported")
                     => AsAmbientLeft(k)
           /\ \A k \in DOMAIN comp.afterBuild \ DOMAIN comp.in.devEnv.Variables :
                 AsAmbientLeft(k)

\* C18 witness: the build exports HOME=/homeless-shelter and the ambient
\* HOME=/home/u survives.
C18_Witness ==
    /\ BuildMerged
    /\ <<"HOME">> \in DOMAIN comp.in.devEnv.Variables
    /\ comp.in.devEnv.Variables[<<"HOME">>] =
           [Type |-> "exported", Value |-> <<"/homeless-shelter">>]
    /\ Get(comp.afterBuild, <<"HOME">>) = <<"/home/u">>

\* C18 witness of the kinds: the build's FOO of kind var leaves the ambient
\* FOO.
C18_WitnessVar ==
    /\ BuildMerged
    /\ <<"FOO">> \in DOMAIN comp.in.devEnv.Variables
    /\ comp.in.devEnv.Variables[<<"FOO">>].Type = "var"
    /\ Get(comp.afterBuild, <<"FOO">>) = <<"a", "=", "b">>

\* the build exports a certificate path
BuildCert ==
    /\ BuildMerged
    /\ <<"SSL_CERT_FILE">> \in DOMAIN comp.in.devEnv.Variables
    /\ comp.in.devEnv.Variables[<<"SSL_CERT_FILE">>].Type = "exported"

\* C19: after the build layer, SSL_CERT_FILE is as the ambient layer left
\* it if the build's exported value is "/no-cert-file.crt", and is the
\* build's exported value otherwise.
C19_CertificateRule ==
    BuildCert
        => IF comp.in.devEnv.Variables[<<"SSL_CERT_FILE">>].Value
                  = <<"/no-cert-file.crt">>
           THEN AsAmbientLeft(<<"SSL_CERT_FILE">>)
           ELSE comp.afterBuild[<<"SSL_CERT_FILE">>] =
                    comp.in.devEnv.Variables[<<"SSL_CERT_FILE">>].Value

\* C19 witness: the build exports the sentinel and the ambient /amb.crt
\* survives.
C19_Witness ==
    /\ BuildCert
    /\ comp.in.devEnv.Variables[<<"SSL_CERT_FILE">>].Value = <<"/no-cert-file.crt">>
    /\ Get(comp.afterBuild, <<"SSL_CERT_FILE">>) = <<"/amb.crt">>

\* C19 witness of the other values: the build's /nix.crt replaces the
\* ambient /amb.crt.
C19_WitnessKept ==
    /\ BuildCert
    /\ Get(AmbientKept(comp.in.currentEnv), <<"SSL_CERT_FILE">>) = <<"/amb.crt">>
    /\ Get(comp.afterBuild, <<"SSL_CERT_FILE">>) = <<"/nix.crt">>

\* the names the ambient environment defines and the build exports
DefinedByBoth ==
    { k \in DOMAIN Ambient(comp.in.currentEnv)
             \cap DOMAIN comp.in.devEnv.Variables :
        comp.in.devEnv.Variables[k].Type = "exported" }

\* C20 (as claimed): no name is in both ignore sets, and every name the
\* ambient environment defines and the build exports is in the mapping
\* after the build layer.
C20_IgnoreSetsDisjoint ==
    /\ ignoreCurrentEnvVar \cap ignoreDevEnvVar = {}
    /\ BuildMerged => \A k \in DefinedByBoth : k \in DOMAIN comp.afterBuild

\* C20 (amended): SHELL is the one name in both ignore sets; a name other
\* than SHELL that the ambient environment defines and the build exports is
\* in the mapping after the build layer, and SHELL is not.
C20_IgnoreSetsShareShell ==
    /\ ignoreCurrentEnvVar \cap ignoreDevEnvVar = {<<"SHELL">>}
    /\ BuildMerged
         => \A k \in DefinedByBoth :
               k \in DOMAIN comp.afterBuild <=> k # <<"SHELL">>

\* C20 witness: the ambient PWD is dropped and the build's exported PWD
\* supplies the name.
C20_Witness ==
    /\ BuildMerged
    /\ <<"PWD">> \in DefinedByBoth
    /\ Get(comp.afterBuild, <<"PWD">>) = <<"/build">>

\* C20 witness of SHELL: the ambient and the build both define SHELL and
\* neither supplies it.
C20_WitnessShell ==
    /\ BuildMerged
    /\ <<"SHELL">> \in DefinedByBoth
    /\ <<"SHELL">> \notin DOMAIN comp.afterBuild

----------------------------------------------------------------------------
(* The order of the steps (specification Spec for the sync of every call,  *)
(* SpecExec for the one-shot pipeline).                                    *)

RECURSIVE EventsAmong(_, _)
\* the events of the trace whose step is in the set evs, in order
EventsAmong(trace, evs) ==
    IF trace = <<>> THEN <<>>
    ELSE (IF Head(trace).ev \in evs THEN <<Head(trace)>> ELSE <<>>)
             \o EventsAmong(Tail(trace), evs)

\* q is a prefix of one of the sequences in the set ps
PrefixOfOne(q, ps) ==
    \E p \in ps : Len(q) <= Len(p) /\ q = SubSeq(p, 1, Len(q))

\* every event but the last succeeded, and if the last one failed the call
\* returned an error
StopsAtFailure(evts, err) ==
    /\ \A i \in 1..(Len(evts) - 1) : evts[i].ok
    /\ (evts # <<>> /\ ~evts[Len(evts)].ok) => err # NoErr

\* the three steps of a sync, in order
SyncOrders ==
    {<<"generateShellFiles", "addPackagesToProfile", "RemoveInvalidSymlinks">>,
     <<"generateShellFiles", "installNixProfile", "RemoveInvalidSymlinks">>}

\* the error a failing step of the sync returns
SyncErrorOf(ev) == IF ev = "installNixProfile" THEN "apply Nix derivation" ELSE ev

\* the calls that return the error of their sync unchanged
ReturnsSyncError == {"Add", "Remove", "Shell", "Exec"}

\* C21: the sync of every call (install mode in Add, uninstall mode in
\* Remove, ensure mode in Shell and Exec) regenerates the manifest files,
\* then runs the package manager on the profile, then prunes the dangling
\* symlinks; a step that fails is the last step of the sync, and its error
\* is the error returned.
C21_SyncStepOrder ==
    LET sync == EventsAmong(last.trace, SyncEvents) IN
    /\ PrefixOfOne(Steps(sync), SyncOrders)
    /\ StopsAtFailure(sync, last.err)
    /\ (sync # <<>> /\ ~sync[Len(sync)].ok /\ last.op \in ReturnsSyncError)
           => last.err = SyncErrorOf(sync[Len(sync)].ev)

\* C21 witness: a Remove whose package-manager step fails: the manifest
\* files were regenerated, the symlinks are not pruned.
C21_Witness ==
    /\ last.op = "Remove"
    /\ Steps(EventsAmong(last.trace, SyncEvents))
           = <<"generateShellFiles", "installNixProfile">>
    /\ ~last.trace[Len(last.trace)].ok
    /\ last.err = "apply Nix derivation"

\* the stages of a one-shot execution: the sync, the script materializer,
\* the composition, the artifact of an arbitrary command, the child
PipelineEvents ==
    SyncEvents \cup {"writeScriptsToFiles", "computeNixEnv", "writeScriptFile",
                     "nix.RunScript"}

\* the steps of a one-shot execution, in order: of a declared script, of an
\* arbitrary command
PipelineOrders ==
    { sync \o rest :
        sync \in SyncOrders,
        rest \in {<<"writeScriptsToFiles", "computeNixEnv", "nix.RunScript">>,
                  <<"writeScriptsToFiles", "computeNixEnv", "writeScriptFile",
                    "nix.RunScript">>} }

\* the steps of a one-shot execution in a new nix shell
LegacyEvents ==
    {"profilePath", "plugin.InitHooks", "plugin.Env", "nix.NewDevboxShell",
     "shell.Run"}

\* C22 (as claimed): every RunScript performs the sync, then the script
\* materializer, then the composition, then the child, a failing stage
\* being the last one; one that returns no error has performed them all.
C22_EveryRunIsThePipeline ==
    last.op = "RunScript"
        => LET pipe == EventsAmong(last.trace, PipelineEvents) IN
           /\ PrefixOfOne(Steps(pipe), PipelineOrders)
           /\ StopsAtFailure(pipe, last.err)
           /\ last.err = NoErr => Steps(pipe) \in PipelineOrders

\* C22 (amended): a RunScript performs the sync, then, with the unified
\* environment, the script materializer, the composition, for an arbitrary
\* command the writing of the .cmd artifact, and the child, a failing
\* stage being the last one and its error the one returned; without the
\* unified environment it performs the sync and then starts a nix shell on
\* the script, with no materializer, composition or child of the pipeline.
C22_OneShotPipeline ==
    last.op = "RunScript"
        => LET pipe == EventsAmong(last.trace, PipelineEvents)
               legacy == EventsAmong(last.trace, LegacyEvents)
           IN
           /\ PrefixOfOne(Steps(pipe), PipelineOrders)
           /\ StopsAtFailure(pipe, last.err)
           /\ (pipe # <<>> /\ ~pipe[Len(pipe)].ok)
                  => last.err = SyncErrorOf(pipe[Len(pipe)].ev)
           /\ IF legacy = <<>>
              THEN last.err = NoErr => Steps(pipe) \in PipelineOrders
              ELSE /\ Steps(pipe) \in SyncOrders
                   /\ last.err = NoErr
                        => last.trace[Len(last.trace)].ev = "shell.Run"

\* C22 witness: `echo hi` whose composition fails: the sync and the
\* materializer have run, no artifact of the command is written and no
\* child is launched.
C22_Witness ==
    /\ last.op = "RunScript" /\ last.pkgs = <<"echo", "hi">>
    /\ last.err = "computeNixEnv"
    /\ Succeeded("RemoveInvalidSymlinks") /\ Succeeded("writeScriptsToFiles")
    /\ ~Performed("writeScriptFile") /\ ~Performed("nix.RunScript")

----------------------------------------------------------------------------
(* Properties of the init text of an interactive shell (specification      *)
(* SpecRc).                                                                *)

\* the sections the init text can hold, in the order of the claim
SectionOrder ==
    <<"source", "export", "HISTFILE", "PS1", "shell-ready", "cd project",
      "plugin hook", "user hook", "cd back", "run_script">>

\* the names of the sections of a text that are among `names`, in text order
SectionsAmong(text, names) ==
    LET kept == Filter(text, { x \in Range(text) : x.sec \in names })
    IN  [i \in DOMAIN kept |-> kept[i].sec]

\* q holds the elements of p that are in `present`, in the order of p
SubsequenceOf(q, p, present) == q = Filter(p, present)

\* the position of a section in the text, 0 when it is absent
SectionAt(text, sec) ==
    IF \E i \in DOMAIN text : text[i].sec = sec
    THEN CHOOSE i \in DOMAIN text : text[i].sec = sec
    ELSE 0

\* C23: in every generated init text the sections that are present appear
\* in the order source, export, history file, prompt, session-ready log, cd
\* into the project, plugin hooks, user hooks, cd back, single-command
\* block; each appears at most once, the plugin hooks precede the user hook
\* and both lie between the two directory changes.
C23_SectionOrder ==
    rc # RcIdle =>
        LET names == SectionsAmong(rc.text, Range(SectionOrder))
            cdIn  == SectionAt(rc.text, "cd project")
            cdOut == SectionAt(rc.text, "cd back")
            plug  == SectionAt(rc.text, "plugin hook")
            user  == SectionAt(rc.text, "user hook")
        IN  /\ SubsequenceOf(names, SectionOrder, Range(names))
            /\ 0 < cdIn /\ cdIn < cdOut
            /\ plug # 0 => cdIn < plug /\ plug < cdOut
            /\ user # 0 => cdIn < user /\ user < cdOut
            /\ plug # 0 /\ user # 0 => plug < user
            /\ plug # 0 <=> rc.pluginHooks # <<>>
            /\ user # 0 <=> rc.initHook # <<>>

\* an init text with every section, its plugin hooks joined in their order
C23_Witness ==
    /\ rc # RcIdle
    /\ SectionsAmong(rc.text, Range(SectionOrder)) = SectionOrder
    /\ Len(rc.pluginHooks) = 2
    /\ rc.text[SectionAt(rc.text, "plugin hook")].text
         = <<"echo p1", "\n", "echo p2">>
    /\ rc.text[SectionAt(rc.text, "user hook")].text = <<"echo hi">>

----------------------------------------------------------------------------
(* Remove's set difference and its warning (specification Spec).           *)

\* the requested packages the intent P lacks, in request order
MissingPkgs(P, R) == Filter(R, Range(R) \ Range(P))

\* the requested packages the intent P declares, in request order
DeclaredPkgs(P, R) == Filter(R, Range(P))

\* the arguments of the steps named ev in the last call's trace
ArgsOf(ev) == { last.trace[i].arg : i \in EventsOf(ev) }

\* every step of the last call's trace succeeded
NoStepFailed == \A i \in DOMAIN last.trace : last.trace[i].ok

\* C24: after Remove(R) on the intent P the in-memory intent is P without
\* the members of R, and so is the persisted intent once the persist has
\* succeeded; a warning is written exactly when some requested package is
\* not in P and it names exactly those packages; the warning is no error
\* (Remove fails only if one of its steps fails) and the persist, the
\* uninstall steps and the sync follow it; the plugin and profile uninstall
\* steps are given the packages in both P and R only.
C24_RemoveSetDifference ==
    last.op = "Remove" =>
        LET P == last.preCfg
            R == last.pkgs
        IN  /\ cfg = Without(P, R)
            /\ Succeeded("saveCfg") => disk = Without(P, R)
            /\ ArgsOf("warning") =
                 IF MissingPkgs(P, R) = <<>> THEN {} ELSE {MissingPkgs(P, R)}
            /\ Performed("saveCfg")
            /\ Performed("warning")
                  => FirstAt(last.trace, "warning") < FirstAt(last.trace, "saveCfg")
            /\ last.err # NoErr <=> ~NoStepFailed
            /\ NoStepFailed
                  => /\ Succeeded("plugin.Remove")
                     /\ Succeeded("removePackagesFromProfile")
                     /\ Succeeded("generateShellFiles")
                     /\ Succeeded("RemoveInvalidSymlinks")
            /\ ArgsOf("plugin.Remove") \subseteq {DeclaredPkgs(P, R)}
            /\ ArgsOf("removePackagesFromProfile") \subseteq {DeclaredPkgs(P, R)}

\* C24 witness: Remove("y", "z") on <<"x", "y">> warns about "z", removes
\* "y", persists <<"x">>, uninstalls "y" only and syncs.
C24_Witness ==
    /\ last.op = "Remove" /\ last.pkgs = <<"y", "z">>
    /\ last.preCfg = <<"x", "y">>
    /\ last.err = NoErr
    /\ ArgsOf("warning") = {<<"z">>}
    /\ ArgsOf("plugin.Remove") = {<<"y">>}
    /\ ArgsOf("removePackagesFromProfile") = {<<"y">>}
    /\ Succeeded("RemoveInvalidSymlinks")
    /\ cfg = <<"x">> /\ disk = <<"x">>

----------------------------------------------------------------------------
(* The synthetic session flags (specification SpecEnv).                    *)

\* the layers composed after the flags are set define the key k
LaterLayersDefine(k) ==
    \/ k \in DOMAIN comp.in.pluginEnv.env
    \/ comp.in.EnvConfig /\ k \in DOMAIN comp.in.cfgEnv

\* the ambient or the build layer gives the key k another value than "1"
EarlierLayersDiffer(k) ==
    \/ k \in DOMAIN AmbientKept(comp.in.currentEnv)
          /\ AmbientKept(comp.in.currentEnv)[k] # <<"1">>
    \/ k \in BuiltKept

\* C25 (as claimed): in every successfully composed mapping the two
\* synthetic flags are bound to "1".
C25_FlagsAlwaysOne ==
    CompOk => \A k \in SyntheticFlags :
                 k \in DOMAIN comp.out.env /\ comp.out.env[k] = <<"1">>

\* C25 (amended): every successfully composed mapping binds the two
\* synthetic flags; a flag that no plugin contributes and, with the
\* configuration layer enabled, the project does not declare is bound to
\* "1" whatever the ambient and build layers had for it; a flag the project
\* declares (layer enabled) has the declared, expanded value, and otherwise
\* a flag a plugin contributes has the plugin's value.
C25_FlagsSetBeforeLaterLayers ==
    CompOk => \A k \in SyntheticFlags :
        /\ k \in DOMAIN comp.out.env
        /\ ~LaterLayersDefine(k) => comp.out.env[k] = <<"1">>
        /\ (comp.in.EnvConfig /\ k \in DOMAIN comp.in.cfgEnv)
              => comp.out.env[k]
                   = configEnvs(PreConfig, comp.in.cfgEnv, comp.in.projectDir)[k]
        /\ (k \in DOMAIN comp.in.pluginEnv.env
              /\ ~(comp.in.EnvConfig /\ k \in DOMAIN comp.in.cfgEnv))
              => comp.out.env[k] = comp.in.pluginEnv.env[k]

\* C25 witness: the ambient DEVBOX_SHELL_ENABLED=0 composes to "1" when no
\* later layer defines the flag.
C25_Witness ==
    /\ CompOk
    /\ ~LaterLayersDefine(<<"DEVBOX_SHELL_ENABLED">>)
    /\ EarlierLayersDiffer(<<"DEVBOX_SHELL_ENABLED">>)
    /\ comp.out.env[<<"DEVBOX_SHELL_ENABLED">>] = <<"1">>
    /\ comp.out.env[<<"__ETC_PROFILE_NIX_SOURCED">>] = <<"1">>

\* C25 witness of the override: a plugin's DEVBOX_SHELL_ENABLED=0 is the
\* composed value.
C25_WitnessOverride ==
    /\ CompOk
    /\ <<"DEVBOX_SHELL_ENABLED">> \in DOMAIN comp.in.pluginEnv.env
    /\ comp.out.env[<<"DEVBOX_SHELL_ENABLED">>] = <<"0">>

----------------------------------------------------------------------------
(* The final PATH and the later layers (specification SpecEnv).            *)

\* the project declares the key k and the configuration layer is enabled
Declared(k) == comp.in.EnvConfig /\ k \in DOMAIN comp.in.cfgEnv

\* the declared variables, expanded as the configuration layer expands them
ExpandedConfig == configEnvs(PreConfig, comp.in.cfgEnv, comp.in.projectDir)

\* the PATH values the plugin and configuration layers supply
LaterPaths ==
    (IF <<"PATH">> \in DOMAIN comp.in.pluginEnv.env
     THEN {comp.in.pluginEnv.env[<<"PATH">>]} ELSE {})
    \cup (IF Declared(<<"PATH">>) THEN {ExpandedConfig[<<"PATH">>]} ELSE {})

\* C29: in every successfully composed mapping PATH is the path-list join
\* of the plugin virtual-environment directory, the PATH recorded after the
\* build layer and the ambient PATH, and is none of the PATH values a
\* plugin contributes or the project declares; the PATH recorded after the
\* build layer is the ambient PATH when the build exports no PATH; every
\* other key a plugin contributes or the project declares has the value of
\* these layers: the declared, expanded one if the project declares it, the
\* plugin's otherwise.
C29_FinalPathIgnoresLaterLayers ==
    CompOk =>
        LET A == AmbientKept(comp.in.currentEnv)
            env == comp.out.env
            recorded == Get(comp.afterBuild, <<"PATH">>)
        IN  /\ env[<<"PATH">>] =
                  JoinPathLists(pluginVirtenvPath(comp.in.projectDir),
                                recorded, Get(A, <<"PATH">>))
            /\ env[<<"PATH">>] \notin LaterPaths
            /\ <<"PATH">> \notin BuiltKept => recorded = Get(A, <<"PATH">>)
            /\ \A k \in DOMAIN comp.in.pluginEnv.env \ {<<"PATH">>} :
                  ~Declared(k) => env[k] = comp.in.pluginEnv.env[k]
            /\ \A k \in DOMAIN comp.in.cfgEnv \ {<<"PATH">>} :
                  Declared(k) => env[k] = ExpandedConfig[k]

\* C29 witness: a plugin contributes PATH=/p and FOO=plug over the ambient
\* PATH=/c; the composed PATH is joined from the directory and /c, and FOO
\* is plug.
C29_Witness ==
    /\ CompOk
    /\ comp.in.currentEnv = <<<<"PATH", "=", "/c">>>>
    /\ DOMAIN comp.in.pluginEnv.env = {<<"PATH">>, <<"FOO">>}
    /\ comp.in.pluginEnv.env[<<"PATH">>] = <<"/p">>
    /\ comp.out.env[<<"PATH">>] = VirtenvDir \o <<":", "/c", ":", "/c">>
    /\ comp.out.env[<<"FOO">>] = <<"plug">>

\* C29 witness of the declared PATH: PATH=$FOO declared with FOO=plug from a
\* plugin and PATH=/b exported by the build; the composed PATH is joined
\* from the directory and /b.
C29_WitnessDeclared ==
    /\ CompOk /\ Declared(<<"PATH">>)
    /\ ExpandedConfig[<<"PATH">>] = <<"plug">>
    /\ <<"PATH">> \in BuiltKept
    /\ Get(comp.afterBuild, <<"PATH">>) = <<"/b">>
    /\ comp.out.env[<<"PATH">>] = VirtenvDir \o <<":", "/b", ":">>

----------------------------------------------------------------------------
(* The error and the intent after Add's rollback (specification Spec).     *)

\* the step of the sync that failed in the last call
FailedSyncStep ==
    CHOOSE ev \in SyncEvents :
        \E i \in DOMAIN last.trace : last.trace[i].ev = ev /\ ~last.trace[i].ok

\* the last call is an Add of valid identifiers whose sync failed
AddSyncFailed == last.op = "Add" /\ AllValid(last.pkgs) /\ SyncFailed

\* the last call's rollback persist was attempted and failed
RollbackPersistFailed ==
    \E i \in DOMAIN last.trace :
        last.trace[i].ev = "rollbackSaveCfg" /\ ~last.trace[i].ok

\* C30 (as claimed): when Add's sync fails, the persisted intent equals the
\* pre-Add intent only if the rollback persist succeeded.
C30_RestoredOnlyIfRollbackPersisted ==
    (AddSyncFailed /\ disk = last.preCfg) => Succeeded("rollbackSaveCfg")

\* C30 (amended): when Add's sync fails, Add returns the error of the
\* failed sync step whether the rollback persist succeeds or fails, the
\* rollback persist is always attempted, and the in-memory intent is the
\* pre-Add intent P; the persisted intent is P if the rollback persist
\* succeeded.
C30_RollbackReportsSyncError ==
    AddSyncFailed =>
        /\ last.err = SyncErrorOf(FailedSyncStep)
        /\ Succeeded("rollbackSaveCfg") \/ RollbackPersistFailed
        /\ cfg = last.preCfg
        /\ Succeeded("rollbackSaveCfg") => disk = last.preCfg

\* C30 witness: Add("y") on <<"x">> whose sync and rollback persist both
\* fail returns the sync's error with <<"x">> in memory and <<"x", "y">>
\* persisted.
C30_Witness ==
    /\ AddSyncFailed /\ RollbackPersistFailed
    /\ last.pkgs = <<"y">> /\ last.preCfg = <<"x">> /\ last.preDisk = <<"x">>
    /\ last.err = SyncErrorOf(FailedSyncStep)
    /\ cfg = <<"x">> /\ disk = <<"x", "y">>

\* C30 witness of the unchanged intent: Add("x") on <<"x">> whose sync and
\* rollback persist both fail has <<"x">> persisted, the value the first
\* persist wrote.
C30_WitnessNothingNew ==
    /\ AddSyncFailed /\ RollbackPersistFailed
    /\ last.pkgs = <<"x">> /\ last.preCfg = <<"x">>
    /\ cfg = <<"x">> /\ disk = <<"x">>

----------------------------------------------------------------------------
(* Interleaved invocations (specification SpecConc).                       *)

RECURSIVE ApplyAll(_, _)
\* the intent P after the calls of the sequence, applied one after another
ApplyAll(P, calls) ==
    IF calls = <<>> THEN P
    ELSE ApplyAll(MutatedIntent(P, P, Head(calls).op, Head(calls).pkgs),
                  Tail(calls))

\* the invocations that are in their sync step
InSync == { p \in Procs : conc.inv[p].pc = "sync" }

\* every invocation made so far has returned
AllReturned == \A p \in Procs : conc.inv[p].pc = "idle"

\* the intents the calls made so far give when applied one at a time, in
\* any order
SerialOutcomes ==
    { ApplyAll(conc.start, [i \in DOMAIN conc.log |-> conc.log[o[i]]]) :
        o \in { f \in [DOMAIN conc.log -> DOMAIN conc.log] :
                  \A i, j \in DOMAIN conc.log : i # j => f[i] # f[j] } }

\* C26: an invocation that has persisted has written the intent computed
\* from the copy it loaded when it opened the project, whatever the other
\* invocations have persisted since; nothing keeps two invocations from
\* being in their sync step together; and whenever the invocations were
\* made one at a time, each opened after the one before had returned, the
\* persisted intent after they have returned is the result of applying
\* them in order.
C26_NoInternalSerialization ==
    /\ \A p \in Procs :
          (conc.inv[p].pc \in {"saved", "sync"} /\ conc.inv[p].op # "Ensure")
              => conc.inv[p].wrote
                   = ApplyAll(conc.inv[p].loaded,
                              <<[op |-> conc.inv[p].op, pkgs |-> conc.inv[p].pkgs]>>)
    /\ (conc.serial /\ AllReturned) => disk = ApplyAll(conc.start, conc.log)
    /\ conc.serial => Cardinality(InSync) <= 1

\* C26 witness: Add("x") and Add("y") opened on the empty intent are in
\* their sync step together; the second persist has replaced the first, and
\* the persisted intent is none of the intents the two calls give in
\* sequence.
C26_Witness ==
    /\ InSync = Procs
    /\ conc.start = <<>>
    /\ conc.log = <<[op |-> "Add", pkgs |-> <<"x">>], [op |-> "Add", pkgs |-> <<"y">>]>>
    /\ ~conc.serial
    /\ disk \in {<<"x">>, <<"y">>}
    /\ disk \notin SerialOutcomes

\* C26 witness of the outcome: interleaved invocations have all returned
\* and the persisted intent is none of the intents their calls give in
\* sequence.
C26_WitnessLostUpdate ==
    /\ AllReturned /\ ~conc.serial
    /\ Len(conc.log) = 2
    /\ disk \notin SerialOutcomes

----------------------------------------------------------------------------
(* The hooks artifact and the names of the declared scripts (specification *)
(* SpecScripts).                                                           *)

\* the file of the hooks artifact and the file of arbitrary commands
HooksFile == scriptFilename(hooksFilename)

CmdFile == scriptFilename(arbitraryCmdFilename)

\* the text of the hooks artifact of the last run
HooksText == stringsJoin(<<mat.initHook>> \o mat.pluginHooks, "\n\n")

\* C27: after every run that returns no error the hooks artifact holds the
\* joined init-hook text, every declared script has an artifact of its own
\* that is neither the hooks artifact nor the artifact of arbitrary
\* commands, and the body of every script artifact starts by sourcing the
\* hooks artifact.
C27_HooksArtifactIntegrity ==
    RunOk =>
        /\ files[HooksFile].body = HooksText
        /\ \A n \in DOMAIN mat.scripts :
              /\ scriptFilename(n) \notin {HooksFile, CmdFile}
              /\ files[scriptFilename(n)].body
                   = <<". ">> \o scriptPath(ProjectDir, HooksFile) \o <<"\n\n">>
                        \o mat.scripts[n]

\* the run declared a script named ".hooks": the hooks artifact holds the
\* script, which sources its own file, and the init-hook text is in no file
C27_HooksOverwritten ==
    /\ RunOk
    /\ DOMAIN mat.scripts = {hooksFilename}
    /\ mat.initHook = <<"echo hi">>
    /\ files[HooksFile].body
         = <<". ", "/proj", "/", ".devbox/gen/scripts", "/", ".hooks", ".sh",
             "\n\n", "echo 1">>
    /\ \A f \in DOMAIN files : files[f].body # HooksText

----------------------------------------------------------------------------
(* The order of the init hooks in the hooks artifact (specification        *)
(* SpecScripts); the order in the init text of the interactive shell is    *)
(* C23's, under SpecRc.                                                    *)

\* the tokens of the plugins' init hooks of the last run
PluginHookTokens == UNION { Range(mat.pluginHooks[i]) : i \in DOMAIN mat.pluginHooks }

\* the last run wrote the hooks artifact for a user hook and plugin hooks
BothHooksWritten ==
    /\ RunOk
    /\ hooksFilename \notin DOMAIN mat.scripts
    /\ mat.initHook # <<>>
    /\ mat.pluginHooks # <<>>

\* C28: the hooks artifact runs the init hooks in the order of the
\* interactive shell's init text: every plugin init hook, in plugin order,
\* before the user-declared init hook.
C28_PluginHooksBeforeUserHook ==
    BothHooksWritten =>
        LET body == files[HooksFile].body IN
        /\ body = stringsJoin(mat.pluginHooks \o <<mat.initHook>>, "\n\n")
        /\ \A i, j \in DOMAIN body :
              (body[i] \in PluginHookTokens /\ body[j] \in Range(mat.initHook))
                  => i < j

\* the hooks artifact written for the user hook "echo hi" and the plugin
\* hook "echo plug" runs the user hook first
C28_UserHookFirst ==
    /\ BothHooksWritten
    /\ mat.initHook = <<"echo hi">>
    /\ mat.pluginHooks = <<<<"echo plug">>>>
    /\ files[HooksFile].body = <<"echo hi", "\n\n", "echo plug">>

----------------------------------------------------------------------------
(* The artifact of arbitrary commands across executions (specification     *)
(* SpecRuns).  `run` holds the execution that has just ended.              *)

\* the last execution ran a command that is not a declared script
ArbitraryRun == run # RunIdle /\ run.cmdName \notin DOMAIN run.scripts

\* the last execution ran a declared script
ScriptRun == run # RunIdle /\ run.cmdName \in DOMAIN run.scripts

\* the errors an execution can return once its materializer pass is done
AfterMaterializer == {NoErr, "computeNixEnv", "nix.RunScript"}

\* the errors an execution of an arbitrary command can return once it has
\* written the artifact of the command
AfterCmdArtifact == {NoErr, "nix.RunScript"}

\* the last execution took the unified path, its materializer pass
\* returned no error and every deletion of the pass succeeded
Materialized ==
    /\ run # RunIdle
    /\ run.UnifiedEnv
    /\ run.err \in AfterMaterializer
    /\ ~run.removeFailed

\* the body of the artifact of arbitrary commands
CmdBody ==
    <<". ", "/proj", "/", ".devbox/gen/scripts", "/", ".hooks", ".sh", "\n\n",
      "eval $DEVBOX_RUN_CMD\n">>

\* C31 (as claimed): after an execution of an arbitrary command that
\* returns no error the files of the scripts directory are exactly the
\* hooks artifact, one artifact per declared script and the .cmd artifact;
\* after an execution of a declared script that returns no error the
\* directory holds no .cmd artifact.
C31_CmdArtifactLifetime ==
    /\ (ArbitraryRun /\ run.err = NoErr)
          => FileNames(files) = Written(run.scripts) \cup {CmdFile}
    /\ (ScriptRun /\ run.err = NoErr) => CmdFile \notin FileNames(files)

\* C31 (amended): an execution on the unified path whose materializer pass
\* returns no error and whose deletions all succeed leaves, as the files of
\* the scripts directory, exactly the hooks artifact and one artifact per
\* declared script, and also the .cmd artifact, with its fixed body, when
\* the command is not a declared script and the artifact was written; every
\* other file an earlier execution left is gone.  A deletion fails only in
\* a pass of the unified path, and the file it was to delete stays.  An
\* execution on the legacy path, or one whose sync fails, leaves the
\* directory as it found it, a .cmd artifact of an earlier execution
\* included.
C31_CmdArtifactPrunedByNextPass ==
    run # RunIdle =>
        /\ (Materialized /\ ArbitraryRun /\ run.err \in AfterCmdArtifact)
              => /\ FileNames(files) = Written(run.scripts) \cup {CmdFile}
                 /\ files[CmdFile].body = CmdBody
        /\ (Materialized /\ ArbitraryRun /\ run.err \notin AfterCmdArtifact)
              => FileNames(files) = Written(run.scripts)
        /\ (Materialized /\ ScriptRun)
              => FileNames(files) = Written(run.scripts)
        /\ run.removeFailed
              => /\ run.UnifiedEnv /\ run.err \in AfterMaterializer \cup {"WriteString", "OpenFile"}
                 /\ \E f \in FileNames(run.pre) \ Written(run.scripts) :
                       f \in FileNames(files)
        /\ (~run.UnifiedEnv \/ run.err = "ensurePackagesAreInstalled")
              => files = run.pre

\* C31 witness: the execution of the declared script "a" finds the .cmd
\* artifact an earlier arbitrary command left, and its materializer pass
\* prunes it.
C31_Witness ==
    /\ Materialized /\ ScriptRun /\ run.err = NoErr
    /\ DOMAIN run.scripts = {"a"}
    /\ CmdFile \in DOMAIN run.pre
    /\ run.pre[CmdFile].body = CmdBody
    /\ FileNames(files) = {HooksFile, <<"a", ".sh">>}

\* C31 witness of the arbitrary command: "echo" run with the scripts a and
\* b declared leaves the hooks artifact, a.sh, b.sh and .cmd.sh.
C31_WitnessArbitrary ==
    /\ Materialized /\ ArbitraryRun /\ run.err = NoErr
    /\ DOMAIN run.scripts = {"a", "b"}
    /\ FileNames(files) = {HooksFile, <<"a", ".sh">>, <<"b", ".sh">>, CmdFile}
    /\ files[CmdFile].body = CmdBody

\* C31 witness of the legacy path: the declared script "a" run with the
\* unified environment disabled returns no error and the .cmd artifact of
\* an earlier execution is still there.
C31_WitnessLegacy ==
    /\ ScriptRun /\ ~run.UnifiedEnv /\ run.err = NoErr
    /\ arbitraryCmdFilename \notin DOMAIN run.scripts
    /\ CmdFile \in FileNames(files)
    /\ files[CmdFile].body = CmdBody

\* C31 witness of the failed deletion: the declared script "a" run on the
\* unified path returns no error although the deletion of the .cmd artifact
\* of an earlier execution failed, and the artifact is still there.
C31_WitnessKept ==
    /\ ScriptRun /\ run.UnifiedEnv /\ run.err = NoErr /\ run.removeFailed
    /\ arbitraryCmdFilename \notin DOMAIN run.scripts
    /\ CmdFile \in FileNames(run.pre)
    /\ CmdFile \in FileNames(files)

====
